---- MODULE Spec2Model ----
(***************************************************************************)
(* A model of schema/sync_crds.py: the rewriter openapi_to_jsonschema, the *)
(* extractor extract_schemas, the layout writer write_schemas and the sync *)
(* command that runs them in sequence.                                     *)
(*                                                                         *)
(* Python values (the parsed YAML documents, the schema trees, the JSON    *)
(* artifacts) are tagged records [tag, val]:                               *)
(*   "null"  val = ""            None                                      *)
(*   "bool"  val \in BOOLEAN     True / False                              *)
(*   "int"   val \in Nat         an integer                                *)
(*   "str"   val a string        a str                                     *)
(*   "list"  val a sequence of values                                      *)
(*   "map"   val a sequence of <<key, value>> pairs with distinct keys, in *)
(*           insertion order (a dict)                                      *)
(***************************************************************************)
EXTENDS Naturals, Sequences, FiniteSets, TLC

VARIABLES
    pc,             \* position of the sync command (sync_crds.py:173-191)
    crd_yaml,       \* the downloaded bundle, as the documents yaml.safe_load_all yields
    di,             \* number of documents extract_schemas has consumed
    schemas,        \* the list extract_schemas builds and returns
    wi,             \* number of entries write_schemas has handled
    disk,           \* the filesystem: [dirs: set of paths, files: set of [path, content]]
    disk0,          \* the filesystem as the run found it (never changed)
    echoed,         \* what typer.echo has printed, in order
    outcome,        \* how the run ended: "running", "ok", "exit1" or the exception raised
    rw_pc,          \* position of the rewriter harness
    openapi_schema, \* the argument of openapi_to_jsonschema
    result,         \* openapi_to_jsonschema(openapi_schema)
    result2,        \* openapi_to_jsonschema(result)
    heap,           \* the dicts and lists of the rewriter harness, by address
    arg,            \* the argument as passed: a reference into heap, or a scalar
    ret             \* what the call returned: a reference into heap, or a scalar

vars == <<pc, crd_yaml, di, schemas, wi, disk, disk0, echoed, outcome,
          rw_pc, openapi_schema, result, result2, heap, arg, ret>>
pipeline_vars == <<pc, crd_yaml, di, schemas, wi, disk, disk0, echoed, outcome>>
rewrite_vars == <<rw_pc, openapi_schema, result, result2, heap, arg, ret>>

(***************************************************************************)
(* Bounds of the model.                                                    *)
(***************************************************************************)
MaxDepth == 2
MaxDocs == 2
MaxVersions == 2

(***************************************************************************)
(* Python values.                                                          *)
(***************************************************************************)
Null == [tag |-> "null", val |-> ""]
Bool(b) == [tag |-> "bool", val |-> b]
Int(n) == [tag |-> "int", val |-> n]
Str(s) == [tag |-> "str", val |-> s]
List(es) == [tag |-> "list", val |-> es]
Map(ents) == [tag |-> "map", val |-> ents]
EmptyMap == Map(<<>>)

\* isinstance(v, dict), isinstance(v, list), isinstance(v, str)
IsDict(v) == v.tag = "map"
IsList(v) == v.tag = "list"
IsStr(v) == v.tag = "str"

\* bool(v): None, False, 0, "", [] and {} are falsy
Truthy(v) ==
    CASE v.tag = "null" -> FALSE
      [] v.tag = "bool" -> v.val
      [] v.tag = "int" -> v.val # 0
      [] OTHER -> Len(v.val) > 0

\* key in d, for a dict d
HasKey(d, key) == \E i \in 1..Len(d.val) : d.val[i][1] = key

\* d[key], for a dict d that holds key
Lookup(d, key) == d.val[CHOOSE i \in 1..Len(d.val) : d.val[i][1] = key][2]

\* d.get(name, default), for a dict d and a str name
Get(d, name, default) == IF HasKey(d, Str(name)) THEN Lookup(d, Str(name)) ELSE default

\* d[key] = value: replaces the value in place, or appends a new pair
DictSet(d, key, value) ==
    IF HasKey(d, key)
    THEN Map([i \in 1..Len(d.val) |->
                IF d.val[i][1] = key THEN <<key, value>> ELSE d.val[i]])
    ELSE Map(Append(d.val, <<key, value>>))

\* s.startswith(prefix)
StartsWith(s, prefix) == Len(s) >= Len(prefix) /\ SubSeq(s, 1, Len(prefix)) = prefix

(***************************************************************************)
(* openapi_to_jsonschema (sync_crds.py:62-91).                             *)
(***************************************************************************)
PRESERVE == "x-kubernetes-preserve-unknown-fields"
EXT_PREFIX == "x-"

RECURSIVE openapi_to_jsonschema(_)

\* Mutant of RewriteProperties: the property schemas are copied, not rewritten.
RewriteProperties_Copied(value) == value

\* Mutant of RewriteProperties: property names that start with "x-" are filtered out.
RewriteProperties_Filtered(value) ==
    LET Kept(item) == ~(IsStr(item[1]) /\ StartsWith(item[1].val, EXT_PREFIX))
        kept == SelectSeq(value.val, Kept)
    IN  Map([i \in 1..Len(kept) |-> <<kept[i][1], openapi_to_jsonschema(kept[i][2])>>])

\* {k: openapi_to_jsonschema(v) for k, v in value.items()}
RewriteProperties(value) ==
    Map([i \in 1..Len(value.val) |->
            <<value.val[i][1], openapi_to_jsonschema(value.val[i][2])>>])

\* Mutant of RewriteList: the rewritten elements come out in reverse order.
RewriteList_Reversed(value) ==
    List([i \in 1..Len(value.val) |->
            openapi_to_jsonschema(value.val[Len(value.val) + 1 - i])])

\* Mutant of RewriteList: an off-by-one that loses the first element.
RewriteList_SkipFirst(value) ==
    List([i \in 1..(Len(value.val) - 1) |-> openapi_to_jsonschema(value.val[i + 1])])

\* [openapi_to_jsonschema(v) for v in value]
RewriteList(value) ==
    List([i \in 1..Len(value.val) |-> openapi_to_jsonschema(value.val[i])])

\* key.startswith("x-"); the keys of the trees rewritten here are strs
\* (RewriteRaises below tells when one is not)
IsExtensionKey(key) == IsStr(key) /\ StartsWith(key.val, EXT_PREFIX)

\* Mutant of CopyPreserved: the value of the preserved key is rewritten like a schema.
CopyPreserved_Rewritten(res, value) ==
    DictSet(res, Str(PRESERVE), openapi_to_jsonschema(value))

\* result["x-kubernetes-preserve-unknown-fields"] = value
CopyPreserved(res, value) == DictSet(res, Str(PRESERVE), value)

\* Mutant of CopyThrough: the value of any other key is rewritten like a schema.
CopyThrough_Rewritten(res, key, value) == DictSet(res, key, openapi_to_jsonschema(value))

\* else: result[key] = value
CopyThrough(res, key, value) == DictSet(res, key, value)

\* Mutant of ConvertItem: a schema keyword whose value has the wrong shape is dropped.
ConvertItem_GuardDrops(res, key, value) ==
    IF key = Str(PRESERVE) THEN DictSet(res, Str(PRESERVE), value)
    ELSE IF IsExtensionKey(key) THEN res
    ELSE IF key \in {Str("properties"), Str("additionalProperties"), Str("items")}
         THEN IF ~IsDict(value) THEN res
              ELSE IF key = Str("properties")
                   THEN DictSet(res, key, RewriteProperties(value))
                   ELSE DictSet(res, key, openapi_to_jsonschema(value))
    ELSE IF key \in {Str("oneOf"), Str("anyOf"), Str("allOf")}
         THEN IF ~IsList(value) THEN res ELSE DictSet(res, key, RewriteList(value))
    ELSE DictSet(res, key, value)

\* One pass of the loop over openapi_schema.items(): the result after it.
ConvertItem(res, key, value) ==
    IF key = Str(PRESERVE) THEN CopyPreserved(res, value)
    ELSE IF IsExtensionKey(key) THEN res
    ELSE IF key \in {Str("properties"), Str("additionalProperties")} /\ IsDict(value)
         THEN IF key = Str("properties")
              THEN DictSet(res, key, RewriteProperties(value))
              ELSE DictSet(res, key, openapi_to_jsonschema(value))
    ELSE IF key = Str("items") /\ IsDict(value)
         THEN DictSet(res, Str("items"), openapi_to_jsonschema(value))
    ELSE IF key \in {Str("oneOf"), Str("anyOf"), Str("allOf")} /\ IsList(value)
         THEN DictSet(res, key, RewriteList(value))
    ELSE CopyThrough(res, key, value)

\* Mutant of ConvertItems: a result without a type is given the type object.
RECURSIVE ConvertItems_Typed(_, _, _)
ConvertItems_Typed(items, i, res) ==
    IF i > Len(items)
    THEN IF HasKey(res, Str("type")) THEN res ELSE DictSet(res, Str("type"), Str("object"))
    ELSE ConvertItems_Typed(items, i + 1, ConvertItem(res, items[i][1], items[i][2]))

\* Mutant of ConvertItems: the loop ends at the first extension key it drops.
RECURSIVE ConvertItems_Break(_, _, _)
ConvertItems_Break(items, i, res) ==
    IF i > Len(items) THEN res
    ELSE IF items[i][1] # Str(PRESERVE) /\ IsExtensionKey(items[i][1]) THEN res
    ELSE ConvertItems_Break(items, i + 1, ConvertItem(res, items[i][1], items[i][2]))

\* The loop of lines 71-89, from the i-th item on.
RECURSIVE ConvertItems(_, _, _)
ConvertItems(items, i, res) ==
    IF i > Len(items) THEN res
    ELSE ConvertItems(items, i + 1, ConvertItem(res, items[i][1], items[i][2]))

openapi_to_jsonschema(s) ==
    IF ~IsDict(s) THEN s ELSE ConvertItems(s.val, 1, EmptyMap)

\* Mutant of RewriteRaises: a key that is no str is copied like any other.
RewriteRaises_Never(s) == FALSE

\* Whether openapi_to_jsonschema(s) raises: key.startswith is reached with a key
\* that is no str (AttributeError), at s or at a node the recursion visits.
RECURSIVE RewriteRaises(_)
RewriteRaises(s) ==
    /\ IsDict(s)
    /\ \E i \in 1..Len(s.val) :
          LET key == s.val[i][1]
              value == s.val[i][2]
          IN  \/ ~IsStr(key)
              \/ /\ key = Str("properties") /\ IsDict(value)
                 /\ \E j \in 1..Len(value.val) : RewriteRaises(value.val[j][2])
              \/ /\ key \in {Str("additionalProperties"), Str("items")} /\ IsDict(value)
                 /\ RewriteRaises(value)
              \/ /\ key \in {Str("oneOf"), Str("anyOf"), Str("allOf")} /\ IsList(value)
                 /\ \E j \in 1..Len(value.val) : RewriteRaises(value.val[j])

(***************************************************************************)
(* openapi_to_jsonschema on objects. Python passes dicts and lists by      *)
(* reference: the heap is a sequence of objects (a map or a list, whose    *)
(* values are cells), an address is an index into it, and a cell is a      *)
(* scalar or a reference [tag |-> "ref", val |-> address].                 *)
(***************************************************************************)
Ref(a) == [tag |-> "ref", val |-> a]
IsRefTo(h, cell, tag) == cell.tag = "ref" /\ h[cell.val].tag = tag

\* A new object
Alloc(h, obj) == [heap |-> Append(h, obj), ref |-> Ref(Len(h) + 1)]

\* The tree v built on the heap, as yaml.safe_load builds it: each mapping and
\* each list an object of its own.
\* (The guards take Len(h) first so that the heap built so far is evaluated before
\* the recursion goes deeper.)
RECURSIVE Store(_, _)
RECURSIVE StoreItems(_, _, _, _)
RECURSIVE StoreElems(_, _, _, _)
StoreItems(h, items, i, cells) ==
    IF Len(h) >= 0 /\ i > Len(items) THEN Alloc(h, Map(cells))
    ELSE LET s == Store(h, items[i][2])
         IN  StoreItems(s.heap, items, i + 1, Append(cells, <<items[i][1], s.ref>>))
StoreElems(h, elems, i, cells) ==
    IF Len(h) >= 0 /\ i > Len(elems) THEN Alloc(h, List(cells))
    ELSE LET s == Store(h, elems[i])
         IN  StoreElems(s.heap, elems, i + 1, Append(cells, s.ref))
Store(h, v) ==
    CASE IsDict(v) -> StoreItems(h, v.val, 1, <<>>)
      [] IsList(v) -> StoreElems(h, v.val, 1, <<>>)
      [] OTHER -> [heap |-> h, ref |-> v]

\* The tree a cell stands for
RECURSIVE Load(_, _)
Load(h, cell) ==
    IF cell.tag # "ref" THEN cell
    ELSE LET obj == h[cell.val]
         IN  IF obj.tag = "map"
             THEN Map([i \in 1..Len(obj.val) |-> <<obj.val[i][1], Load(h, obj.val[i][2])>>])
             ELSE List([i \in 1..Len(obj.val) |-> Load(h, obj.val[i])])

\* d[key] = cell and l.append(cell), on the objects d and l
HeapSet(h, d, key, cell) == [h EXCEPT ![d.val] = DictSet(h[d.val], key, cell)]
HeapAppend(h, l, cell) == [h EXCEPT ![l.val] = List(Append(h[l.val].val, cell))]

\* A call returns a cell, or raises
Done(h, cell) == [heap |-> h, ref |-> cell, raised |-> FALSE]
Raised(h) == [heap |-> h, ref |-> Null, raised |-> TRUE]

\* Mutant of ResultDict: the result is the argument itself, rewritten in place.
ResultDict_InPlace(h, cell) == [heap |-> h, ref |-> cell]

\* result = {}
ResultDict(h, cell) == Alloc(h, EmptyMap)

RECURSIVE HeapRewrite(_, _)
RECURSIVE HeapItems(_, _, _, _)
RECURSIVE HeapProperties(_, _, _, _)
RECURSIVE HeapList(_, _, _, _)

\* {k: openapi_to_jsonschema(v) for k, v in value.items()}, from the j-th item on
HeapProperties(h, items, j, props) ==
    IF j > Len(items) THEN Done(h, props)
    ELSE LET r == HeapRewrite(h, items[j][2])
         IN  IF r.raised THEN r
             ELSE HeapProperties(HeapSet(r.heap, props, items[j][1], r.ref), items, j + 1, props)

\* [openapi_to_jsonschema(v) for v in value], from the j-th element on
HeapList(h, elems, j, list) ==
    IF j > Len(elems) THEN Done(h, list)
    ELSE LET r == HeapRewrite(h, elems[j])
         IN  IF r.raised THEN r
             ELSE HeapList(HeapAppend(r.heap, list, r.ref), elems, j + 1, list)

\* The loop of lines 71-89 from the i-th item on, writing into the object res
HeapItems(h, items, i, res) ==
    IF i > Len(items) THEN Done(h, res)
    ELSE LET key == items[i][1]
             value == items[i][2]
         IN  IF key = Str(PRESERVE)
             THEN HeapItems(HeapSet(h, res, Str(PRESERVE), value), items, i + 1, res)
             ELSE IF ~IsStr(key) THEN Raised(h)
             ELSE IF StartsWith(key.val, EXT_PREFIX) THEN HeapItems(h, items, i + 1, res)
             ELSE IF key = Str("properties") /\ IsRefTo(h, value, "map")
                  THEN LET fresh == Alloc(h, EmptyMap)
                           r == HeapProperties(fresh.heap, h[value.val].val, 1, fresh.ref)
                       IN  IF r.raised THEN r
                           ELSE HeapItems(HeapSet(r.heap, res, key, r.ref), items, i + 1, res)
             ELSE IF key \in {Str("additionalProperties"), Str("items")} /\ IsRefTo(h, value, "map")
                  THEN LET r == HeapRewrite(h, value)
                       IN  IF r.raised THEN r
                           ELSE HeapItems(HeapSet(r.heap, res, key, r.ref), items, i + 1, res)
             ELSE IF key \in {Str("oneOf"), Str("anyOf"), Str("allOf")} /\ IsRefTo(h, value, "list")
                  THEN LET fresh == Alloc(h, List(<<>>))
                           r == HeapList(fresh.heap, h[value.val].val, 1, fresh.ref)
                       IN  IF r.raised THEN r
                           ELSE HeapItems(HeapSet(r.heap, res, key, r.ref), items, i + 1, res)
             ELSE HeapItems(HeapSet(h, res, key, value), items, i + 1, res)

\* openapi_to_jsonschema(cell): the heap after the call and the cell returned
HeapRewrite(h, cell) ==
    IF ~IsRefTo(h, cell, "map") THEN Done(h, cell)
    ELSE LET fresh == ResultDict(h, cell)
         IN  HeapItems(fresh.heap, h[cell.val].val, 1, fresh.ref)

(***************************************************************************)
(* Python helpers of extract_schemas and write_schemas.                    *)
(***************************************************************************)
UPPERCASE == "ABCDEFGHIJKLMNOPQRSTUVWXYZ"
LOWERCASE == "abcdefghijklmnopqrstuvwxyz"

\* c.lower() for one character
LowerChar(c) ==
    IF \E i \in 1..Len(UPPERCASE) : SubSeq(UPPERCASE, i, i) = c
    THEN LET i == CHOOSE j \in 1..Len(UPPERCASE) : SubSeq(UPPERCASE, j, j) = c
         IN  SubSeq(LOWERCASE, i, i)
    ELSE c

\* s.lower()
RECURSIVE lower(_)
lower(s) == IF s = "" THEN "" ELSE LowerChar(Head(s)) \o lower(Tail(s))

\* sub in s, for two strs
Substring(sub, s) ==
    \E i \in 1..(Len(s) + 1) :
        i + Len(sub) - 1 <= Len(s) /\ SubSeq(s, i, i + Len(sub) - 1) = sub

DIGITS == "0123456789"

\* str(n) for an integer n >= 0
RECURSIVE IntStr(_)
IntStr(n) ==
    IF n < 10 THEN SubSeq(DIGITS, n + 1, n + 1)
    ELSE IntStr(n \div 10) \o SubSeq(DIGITS, (n % 10) + 1, (n % 10) + 1)

\* repr(v) and str(v), as an f-string formats a value (a str's quotes are not escaped)
RECURSIVE PyRepr(_)
RECURSIVE JoinRepr(_, _)
JoinRepr(es, pairs) ==
    IF Len(es) = 0 THEN ""
    ELSE (IF pairs THEN PyRepr(es[1][1]) \o ": " \o PyRepr(es[1][2]) ELSE PyRepr(es[1]))
         \o (IF Len(es) = 1 THEN "" ELSE ", " \o JoinRepr(Tail(es), pairs))
PyRepr(v) ==
    CASE v.tag = "null" -> "None"
      [] v.tag = "bool" -> IF v.val THEN "True" ELSE "False"
      [] v.tag = "int" -> IntStr(v.val)
      [] v.tag = "str" -> "'" \o v.val \o "'"
      [] v.tag = "list" -> "[" \o JoinRepr(v.val, FALSE) \o "]"
      [] OTHER -> "{" \o JoinRepr(v.val, TRUE) \o "}"
PyStr(v) == IF IsStr(v) THEN v.val ELSE PyRepr(v)

\* name in v, for a str name and a value v that supports "in"
PyIn(name, v) ==
    CASE IsDict(v) -> HasKey(v, Str(name))
      [] IsList(v) -> \E i \in 1..Len(v.val) : v.val[i] = Str(name)
      [] IsStr(v) -> Substring(name, v.val)
      [] OTHER -> FALSE

\* What "for x in v" iterates over: the elements of a list, the keys of a dict, the
\* characters of a str. Other values are not iterable (PyIterable).
PyIterable(v) == v.tag \in {"list", "map", "str"}
PyIter(v) ==
    CASE IsList(v) -> v.val
      [] IsDict(v) -> [i \in 1..Len(v.val) |-> v.val[i][1]]
      [] OTHER -> [i \in 1..Len(v.val) |-> Str(SubSeq(v.val, i, i))]

\* The outcome of a piece of code: it returns `out`, or raises an exception.
Return(out) == [raised |-> "none", out |-> out]
Raise(exception) == [raised |-> exception, out |-> <<>>]

(***************************************************************************)
(* extract_schemas (sync_crds.py:94-147).                                  *)
(***************************************************************************)
CRD_KIND == "CustomResourceDefinition"
DRAFT07 == "http://json-schema.org/draft-07/schema#"
GVK == "x-kubernetes-group-version-kind"
ROOT_KEYS == <<"properties", "required", "type">>

\* Lines 131-136 on a converted root that is no dict: "in" raises TypeError on an int
\* or a bool, and converted[name] raises TypeError on a list or a str that holds name.
RootAssemblyRaises(converted) ==
    \/ converted.tag \in {"int", "bool", "null"}
    \/ /\ converted.tag \in {"list", "str"}
       /\ \E i \in 1..Len(ROOT_KEYS) : PyIn(ROOT_KEYS[i], converted)

\* Mutant of CopyIfPresent: the key is always set, to null when the root lacks it.
CopyIfPresent_Defaulted(json_schema, converted, name) ==
    DictSet(json_schema, Str(name),
            IF PyIn(name, converted) THEN Lookup(converted, Str(name)) ELSE Null)

\* if name in converted: json_schema[name] = converted[name]
CopyIfPresent(json_schema, converted, name) ==
    IF PyIn(name, converted)
    THEN DictSet(json_schema, Str(name), Lookup(converted, Str(name)))
    ELSE json_schema

\* Mutant of JsonSchemaLiteral: the kind is lowercased in the description and in the
\* annotation, as it is in the entry.
JsonSchemaLiteral_LowerKind(group, kind, version) ==
    Map(<< <<Str("$schema"), Str(DRAFT07)>>,
           <<Str("description"),
             Str(lower(PyStr(kind)) \o " (" \o PyStr(group) \o "/" \o PyStr(version) \o ")")>>,
           <<Str("type"), Str("object")>>,
           <<Str(GVK), List(<< Map(<< <<Str("group"), group>>,
                                      <<Str("kind"), Str(lower(PyStr(kind)))>>,
                                      <<Str("version"), version>> >>) >>)>> >>)

\* The json_schema literal of lines 117-128.
JsonSchemaLiteral(group, kind, version) ==
    Map(<< <<Str("$schema"), Str(DRAFT07)>>,
           <<Str("description"),
             Str(PyStr(kind) \o " (" \o PyStr(group) \o "/" \o PyStr(version) \o ")")>>,
           <<Str("type"), Str("object")>>,
           <<Str(GVK), List(<< Map(<< <<Str("group"), group>>,
                                      <<Str("kind"), kind>>,
                                      <<Str("version"), version>> >>) >>)>> >>)

\* Mutant of JsonSchema: every key of the rewritten root is taken over.
JsonSchema_Merged(group, kind, version, converted) ==
    LET NotInRoot(item) == ~HasKey(converted, item[1])
    IN  IF ~IsDict(converted) THEN JsonSchemaLiteral(group, kind, version)
        ELSE Map(SelectSeq(JsonSchemaLiteral(group, kind, version).val, NotInRoot)
                 \o converted.val)

\* Lines 117-136: the artifact of one version.
JsonSchema(group, kind, version, converted) ==
    CopyIfPresent(
        CopyIfPresent(
            CopyIfPresent(JsonSchemaLiteral(group, kind, version), converted, "properties"),
            converted, "required"),
        converted, "type")

\* Mutant of Entry: the kind keeps its capital letters.
Entry_KeepCase(group, kind, version, json_schema) ==
    [group |-> group, kind |-> kind, version |-> version, schema |-> json_schema]

\* The entry appended at lines 138-145.
Entry(group, kind, version, json_schema) ==
    [group |-> group, kind |-> Str(lower(kind.val)), version |-> version,
     schema |-> json_schema]

\* Mutant of LacksVersion: only the schema body is looked at.
LacksVersion_BodyOnly(version, body) == ~Truthy(body)

\* Mutant of LacksVersion: only the name is looked at.
LacksVersion_NameOnly(version, body) == ~Truthy(version)

\* not version or not openapi_schema (line 114)
LacksVersion(version, body) == ~Truthy(version) \/ ~Truthy(body)

\* The body of the loop over the versions (lines 109-145): the entries it appends.
ExtractVersion(group, kind, ver_entry) ==
    IF ~IsDict(ver_entry) THEN Raise("AttributeError")
    ELSE LET version == Get(ver_entry, "name", Str(""))
             schema == Get(ver_entry, "schema", EmptyMap)
         IN  IF ~IsDict(schema) THEN Raise("AttributeError")
             ELSE LET body == Get(schema, "openAPIV3Schema", EmptyMap)
                  IN  IF LacksVersion(version, body) THEN Return(<<>>)
                      ELSE IF RewriteRaises(body) THEN Raise("AttributeError")
                      ELSE LET converted == openapi_to_jsonschema(body)
                           IN  IF RootAssemblyRaises(converted) THEN Raise("TypeError")
                               ELSE IF ~IsStr(kind) THEN Raise("AttributeError")
                               ELSE Return(<<Entry(group, kind, version,
                                                   JsonSchema(group, kind, version, converted))>>)

\* Mutant of ExtractVersions: the new entries are put in front of the list.
RECURSIVE ExtractVersions_Prepend(_, _, _, _, _)
ExtractVersions_Prepend(group, kind, entries, i, acc) ==
    IF i > Len(entries) THEN Return(acc)
    ELSE LET r == ExtractVersion(group, kind, entries[i])
         IN  IF r.raised # "none" THEN r
             ELSE ExtractVersions_Prepend(group, kind, entries, i + 1, r.out \o acc)

\* The loop over the versions (line 108), from the i-th on.
RECURSIVE ExtractVersions(_, _, _, _, _)
ExtractVersions(group, kind, entries, i, acc) ==
    IF i > Len(entries) THEN Return(acc)
    ELSE LET r == ExtractVersion(group, kind, entries[i])
         IN  IF r.raised # "none" THEN r
             ELSE ExtractVersions(group, kind, entries, i + 1, acc \o r.out)

\* Mutant of LacksIdentity: only the group is looked at.
LacksIdentity_GroupOnly(group, kind) == ~Truthy(group)

\* not group or not kind (line 105)
LacksIdentity(group, kind) == ~Truthy(group) \/ ~Truthy(kind)

\* The body of the loop over the documents (lines 98-145): the entries one document
\* appends to schemas, or the exception it raises.
ExtractDoc(doc) ==
    IF ~Truthy(doc) THEN Return(<<>>)
    ELSE IF ~IsDict(doc) THEN Raise("AttributeError")
    ELSE IF Get(doc, "kind", Null) # Str(CRD_KIND) THEN Return(<<>>)
    ELSE LET spec == Get(doc, "spec", EmptyMap)
         IN  IF ~IsDict(spec) THEN Raise("AttributeError")
             ELSE LET group == Get(spec, "group", Str(""))
                      names == Get(spec, "names", EmptyMap)
                  IN  IF ~IsDict(names) THEN Raise("AttributeError")
                      ELSE LET kind == Get(names, "kind", Str(""))
                               versions == Get(spec, "versions", List(<<>>))
                           IN  IF LacksIdentity(group, kind) THEN Return(<<>>)
                               ELSE IF ~PyIterable(versions) THEN Raise("TypeError")
                               ELSE ExtractVersions(group, kind, PyIter(versions), 1, <<>>)

\* What yaml.safe_load_all yields in place of a document it cannot parse.
YamlError == [tag |-> "yamlerror", val |-> ""]

(***************************************************************************)
(* write_schemas (sync_crds.py:150-158) and the filesystem it writes to:   *)
(* disk.dirs is the set of directories, disk.files a set of                *)
(* [path, content] records, one per file.                                  *)
(***************************************************************************)
SCHEMAS_DIR == "schemas"
EmptyDisk == [dirs |-> {}, files |-> {}]

FilePaths(d) == { f.path : f \in d.files }
ContentAt(d, path) == (CHOOSE f \in d.files : f.path = path).content

\* base / name (pathlib): an absolute name replaces the base
PathJoin(base, name) == IF StartsWith(name, "/") THEN name ELSE base \o "/" \o name

\* The proper ancestors of a path, and its parent ("" when it has none)
Ancestors(path) == { SubSeq(path, 1, i - 1) : i \in { j \in 2..Len(path) : SubSeq(path, j, j) = "/" } }
Parent(path) ==
    IF Ancestors(path) = {} THEN ""
    ELSE CHOOSE a \in Ancestors(path) : \A b \in Ancestors(path) : Len(b) <= Len(a)

\* json.dumps turns the keys of a dict into strs: an int, a bool or None key is
\* written as its JSON text.
JsonKey(key) ==
    CASE key.tag = "int" -> Str(IntStr(key.val))
      [] key.tag = "bool" -> Str(IF key.val THEN "true" ELSE "false")
      [] key.tag = "null" -> Str("null")
      [] OTHER -> key

\* json.dumps(schema, indent=2) + "\n": the file's content, as the JSON document
\* that text encodes (the layout of the text itself is not modelled).
RECURSIVE JsonDocument(_)
JsonDocument(v) ==
    CASE IsDict(v) -> Map([i \in 1..Len(v.val) |->
                             <<JsonKey(v.val[i][1]), JsonDocument(v.val[i][2])>>])
      [] IsList(v) -> List([i \in 1..Len(v.val) |-> JsonDocument(v.val[i])])
      [] OTHER -> v

\* Mutant of Filename: the version is left out of the name.
Filename_NoVersion(entry) == PyStr(entry.kind) \o ".json"

\* The path written for an entry (lines 153-157).
GroupDir(output_dir, entry) == PathJoin(output_dir, entry.group.val)
Filename(entry) == PyStr(entry.kind) \o "_" \o PyStr(entry.version) \o ".json"
Filepath(output_dir, entry) == PathJoin(GroupDir(output_dir, entry), Filename(entry))

\* group_dir.mkdir(parents=True, exist_ok=True)
MkdirRaises(d, group_dir) == (Ancestors(group_dir) \cup {group_dir}) \cap FilePaths(d) # {}
Mkdir(d, group_dir) == [d EXCEPT !.dirs = @ \cup Ancestors(group_dir) \cup {group_dir}]

\* Mutant of WriteText: an existing file is left as it is.
WriteText_KeepExisting(d, filepath, content) ==
    IF filepath \in FilePaths(d) THEN d
    ELSE [d EXCEPT !.files = @ \cup {[path |-> filepath, content |-> content]}]

\* Mutant of WriteText: an existing file is kept and the content goes to a new
\* file beside it.
WriteText_NoClobber(d, filepath, content) ==
    [d EXCEPT !.files = @ \cup {[path |-> IF filepath \in FilePaths(d)
                                           THEN filepath \o ".new" ELSE filepath,
                                  content |-> content]}]

\* filepath.write_text(content): the file is created or overwritten
WriteTextRaises(d, filepath) == Parent(filepath) \notin d.dirs \/ filepath \in d.dirs
WriteText(d, filepath, content) ==
    [d EXCEPT !.files = { f \in @ : f.path # filepath }
                          \cup {[path |-> filepath, content |-> content]}]

\* The body of the loop of write_schemas (lines 153-158) on one entry: the disk after
\* it, or the exception it raises (and the disk as the failed call left it).
WriteEntry(d, output_dir, entry) ==
    IF ~IsStr(entry.group) THEN [raised |-> "TypeError", out |-> d]
    ELSE IF MkdirRaises(d, GroupDir(output_dir, entry))
         THEN [raised |-> "FileExistsError", out |-> d]
    ELSE LET made == Mkdir(d, GroupDir(output_dir, entry))
             filepath == Filepath(output_dir, entry)
         IN  IF WriteTextRaises(made, filepath) THEN [raised |-> "OSError", out |-> made]
             ELSE Return(WriteText(made, filepath, JsonDocument(entry.schema)))

\* write_schemas on a whole list, from a given disk, when nothing fails.
RECURSIVE WriteAll(_, _, _)
WriteAll(d, output_dir, entries) ==
    IF entries = <<>> THEN d
    ELSE WriteAll(WriteEntry(d, output_dir, Head(entries)).out, output_dir, Tail(entries))

(***************************************************************************)
(* The summary of sync (lines 185-191).                                    *)
(***************************************************************************)
\* The printable ASCII characters in code point order (without the quotes, the
\* asterisk and the backslash, which no name of the model holds): the order that
\* sorted() compares strs by.
ASCII == " !#$%&()+,-./0123456789:;<=>?@ABCDEFGHIJKLMNOPQRSTUVWXYZ[]^_abcdefghijklmnopqrstuvwxyz{|}~"
Ord(c) == CHOOSE i \in 1..Len(ASCII) : SubSeq(ASCII, i, i) = c

\* a < b for two strs
RECURSIVE StrLess(_, _)
StrLess(a, b) ==
    IF b = "" THEN FALSE
    ELSE IF a = "" THEN TRUE
    ELSE IF Head(a) = Head(b) THEN StrLess(Tail(a), Tail(b))
    ELSE Ord(Head(a)) < Ord(Head(b))

\* sorted(strs)
RECURSIVE Insert(_, _)
Insert(x, sorted) ==
    IF sorted = <<>> THEN <<x>>
    ELSE IF StrLess(x, Head(sorted)) THEN <<x>> \o sorted
    ELSE <<Head(sorted)>> \o Insert(x, Tail(sorted))
RECURSIVE Sorted(_)
Sorted(strs) == IF strs = <<>> THEN <<>> ELSE Insert(Head(strs), Sorted(Tail(strs)))

\* Mutant of Groups: the list of a known group is replaced, not appended to.
RECURSIVE Groups_Overwrite(_, _)
Groups_Overwrite(entries, acc) ==
    IF entries = <<>> THEN acc
    ELSE LET s == Head(entries)
             ident == PyStr(s.kind) \o "_" \o PyStr(s.version)
             known == \E i \in 1..Len(acc) : acc[i].group = s.group.val
         IN  Groups_Overwrite(Tail(entries),
                    IF known
                    THEN [i \in 1..Len(acc) |->
                            IF acc[i].group = s.group.val
                            THEN [acc[i] EXCEPT !.kinds = <<ident>>]
                            ELSE acc[i]]
                    ELSE Append(acc, [group |-> s.group.val, kinds |-> <<ident>>]))

\* groups.setdefault(s["group"], []).append(f"{s['kind']}_{s['version']}"), over schemas:
\* a sequence of [group, kinds] records in insertion order.
RECURSIVE Groups(_, _)
Groups(entries, acc) ==
    IF entries = <<>> THEN acc
    ELSE LET s == Head(entries)
             ident == PyStr(s.kind) \o "_" \o PyStr(s.version)
             known == \E i \in 1..Len(acc) : acc[i].group = s.group.val
         IN  Groups(Tail(entries),
                    IF known
                    THEN [i \in 1..Len(acc) |->
                            IF acc[i].group = s.group.val
                            THEN [acc[i] EXCEPT !.kinds = Append(@, ident)]
                            ELSE acc[i]]
                    ELSE Append(acc, [group |-> s.group.val, kinds |-> <<ident>>]))

\* The lines echoed at 189-191: the count, then one line per group in sorted order
\* with its identifiers sorted.
Summary(entries, output_dir) ==
    LET groups == Groups(entries, <<>>)
        names == Sorted([i \in 1..Len(groups) |-> groups[i].group])
    IN  <<[line |-> "wrote", count |-> Len(entries), dir |-> output_dir]>>
        \o [i \in 1..Len(names) |->
              [line |-> "group", group |-> names[i],
               kinds |-> Sorted((CHOOSE g \in {groups[j] : j \in 1..Len(groups)} :
                                    g.group = names[i]).kinds)]]

(***************************************************************************)
(* The schema trees the rewriter is run on: the leaves below, wrapped up   *)
(* to MaxDepth times in each keyword the rewriter treats specially (and in *)
(* some it does not).                                                      *)
(***************************************************************************)
\* {"x-foo": 1, "x-kubernetes-preserve-unknown-fields": true, "type": "object"}
ExtensionExample ==
    Map(<< <<Str("x-foo"), Int(1)>>,
           <<Str(PRESERVE), Bool(TRUE)>>,
           <<Str("type"), Str("object")>> >>)

Leaves ==
    { Str("string"), Bool(TRUE), EmptyMap, ExtensionExample,
      Map(<< <<Str("type"), Str("string")>>, <<Str("x-kubernetes-int-or-string"), Bool(TRUE)>> >>),
      Map(<< <<Int(1), Str("one")>> >>) }

Wrappings(t) ==
    { Map(<< <<Str("type"), Str("object")>>,
             <<Str("properties"), Map(<< <<Str("name"), t>>, <<Str("x-name"), ExtensionExample>> >>)>>,
             <<Str("x-foo"), t>>,
             <<Str("required"), List(<<Str("name")>>)>> >>),
      Map(<< <<Str("properties"), t>> >>),
      Map(<< <<Str("items"), t>>, <<Str("x-kubernetes-validations"), List(<<t>>)>> >>),
      Map(<< <<Str("additionalProperties"), t>> >>),
      Map(<< <<Str("oneOf"), List(<<t, Str("string")>>)>> >>),
      Map(<< <<Str("anyOf"), List(<<t>>)>>, <<Str("x-kubernetes-list-type"), Str("set")>> >>),
      Map(<< <<Str("allOf"), List(<<ExtensionExample, t>>)>> >>),
      Map(<< <<Str("oneOf"), t>> >>),
      Map(<< <<Str("not"), t>> >>),
      Map(<< <<Str(PRESERVE), t>>, <<Str("description"), Str("d")>> >>),
      List(<<t>>) }

RECURSIVE Trees(_)
Trees(d) ==
    IF d = 0 THEN Leaves
    ELSE Trees(d - 1) \cup UNION { Wrappings(t) : t \in Trees(d - 1) }

(***************************************************************************)
(* The rewriter alone: one call on a tree, and one more on its result.     *)
(***************************************************************************)
PipelineIdle ==
    /\ pc = "idle" /\ crd_yaml = <<>> /\ di = 0 /\ schemas = <<>> /\ wi = 0
    /\ disk = EmptyDisk /\ disk0 = EmptyDisk /\ echoed = <<>> /\ outcome = "running"

InitRewrite ==
    /\ PipelineIdle
    /\ rw_pc = "call"
    /\ openapi_schema \in Trees(MaxDepth)
    /\ result = Null
    /\ result2 = Null
    /\ heap = Store(<<>>, openapi_schema).heap
    /\ arg = Store(<<>>, openapi_schema).ref
    /\ ret = Null

\* the call returns
RewriteCall ==
    /\ rw_pc = "call"
    /\ ~RewriteRaises(openapi_schema)
    /\ result' = openapi_to_jsonschema(openapi_schema)
    /\ heap' = HeapRewrite(heap, arg).heap
    /\ ret' = HeapRewrite(heap, arg).ref
    /\ rw_pc' = "returned"
    /\ UNCHANGED <<openapi_schema, result2, arg, pipeline_vars>>

\* the call raises AttributeError at a key that is no str
RewriteRaise ==
    /\ rw_pc = "call"
    /\ RewriteRaises(openapi_schema)
    /\ heap' = HeapRewrite(heap, arg).heap
    /\ rw_pc' = "raised"
    /\ UNCHANGED <<openapi_schema, result, result2, arg, ret, pipeline_vars>>

\* the result is rewritten once more
RewriteAgain ==
    /\ rw_pc = "returned"
    /\ ~RewriteRaises(result)
    /\ result2' = openapi_to_jsonschema(result)
    /\ heap' = HeapRewrite(heap, ret).heap
    /\ rw_pc' = "returned2"
    /\ UNCHANGED <<openapi_schema, result, arg, ret, pipeline_vars>>

NextRewrite == RewriteCall \/ RewriteRaise \/ RewriteAgain

SpecRewrite == InitRewrite /\ [][NextRewrite]_vars

(***************************************************************************)
(* The bundles sync is run on: streams of up to MaxDocs documents, each a  *)
(* CustomResourceDefinition with up to MaxVersions version entries, a      *)
(* definition that lacks or garbles one of its parts, or no definition.    *)
(***************************************************************************)
GROUP == "networking.example.io"
OTHER_GROUP == "security.example.io"

\* {type: object, properties: {name: {type: string}}} with extension keys added
WidgetSchema ==
    Map(<< <<Str("type"), Str("object")>>,
           <<Str("properties"),
             Map(<< <<Str("name"), Map(<< <<Str("type"), Str("string")>>,
                                        <<Str("x-kubernetes-int-or-string"), Bool(TRUE)>> >>)>> >>)>>,
           <<Str("required"), List(<<Str("name")>>)>>,
           <<Str("x-kubernetes-validations"), List(<<Str("rule")>>)>> >>)
\* a root with no type and no required, and with keys the artifact does not take
UntypedSchema ==
    Map(<< <<Str("description"), Str("root")>>,
           <<Str("properties"), Map(<< <<Str("size"), Map(<< <<Str("type"), Str("integer")>> >>)>> >>)>>,
           <<Str("additionalProperties"), Bool(FALSE)>> >>)
\* a root with a type other than object and none of properties, required
ArraySchema ==
    Map(<< <<Str("type"), Str("array")>>,
           <<Str("items"), Map(<< <<Str("type"), Str("string")>> >>)>> >>)
\* a root whose rewritten form has none of type, properties, required
OpaqueSchema == Map(<< <<Str(PRESERVE), Bool(TRUE)>> >>)

\* a property schema with an integer key (YAML allows one), which the rewriter visits
IntKeySchema ==
    Map(<< <<Str("type"), Str("object")>>,
           <<Str("properties"),
             Map(<< <<Str("codes"), Map(<< <<Str("type"), Str("object")>>,
                                           <<Int(1), Str("one")>> >>)>> >>)>> >>)
\* an integer key inside a value that the rewriter copies through
IntKeyDefaultSchema ==
    Map(<< <<Str("type"), Str("object")>>,
           <<Str("properties"),
             Map(<< <<Str("codes"), Map(<< <<Str("type"), Str("object")>>,
                                           <<Str("default"), Map(<< <<Int(1), Str("one")>> >>)>> >>)>> >>)>> >>)

VersionEntry(name, body) ==
    Map(<< <<Str("name"), name>>,
           <<Str("served"), Bool(TRUE)>>,
           <<Str("schema"), Map(<< <<Str("openAPIV3Schema"), body>> >>)>> >>)

WidgetV1 == VersionEntry(Str("v1"), WidgetSchema)

\* The version entries the version lists are drawn from: complete ones, ones that
\* the loop skips, and ones of the wrong shape.
VersionEntries ==
    { WidgetV1,
      VersionEntry(Str("v1"), UntypedSchema),
      VersionEntry(Str("v1beta1"), ArraySchema),
      Map(<< <<Str("schema"), Map(<< <<Str("openAPIV3Schema"), WidgetSchema>> >>)>> >>),
      VersionEntry(Str("v2"), EmptyMap),
      Null,
      Map(<< <<Str("name"), Str("v2")>>, <<Str("schema"), Null>> >>) }

\* The version entries that fill the rest of a version list
CompanionEntries == { WidgetV1, VersionEntry(Str("v1beta1"), ArraySchema) }

RECURSIVE SeqsUpTo(_, _)
SeqsUpTo(S, n) ==
    IF n = 0 THEN {<<>>}
    ELSE SeqsUpTo(S, n - 1) \cup { Append(q, x) : q \in { r \in SeqsUpTo(S, n - 1) : Len(r) = n - 1 }, x \in S }

InsertAt(q, k, x) == SubSeq(q, 1, k) \o <<x>> \o SubSeq(q, k + 1, Len(q))

\* The sequences of up to n items, all of them from R but at most one, which is
\* from S and stands at any place.
WithOne(R, S, n) ==
    IF n = 0 THEN {<<>>}
    ELSE SeqsUpTo(R, n)
         \cup UNION { { InsertAt(q, k, x) : k \in 0..Len(q), x \in S } : q \in SeqsUpTo(R, n - 1) }

Definition(spec) ==
    Map(<< <<Str("apiVersion"), Str("apiextensions.k8s.io/v1")>>,
           <<Str("kind"), Str(CRD_KIND)>>,
           <<Str("spec"), spec>> >>)

CrdSpec(group, names, versions) ==
    Map(<< <<Str("group"), group>>, <<Str("names"), names>>, <<Str("versions"), versions>> >>)

Names(kind) == Map(<< <<Str("kind"), kind>>, <<Str("plural"), Str("widgets")>> >>)

Crd(group, kind, versions) == Definition(CrdSpec(group, Names(kind), versions))

\* Widget definitions with up to MaxVersions version entries, any one of which may
\* be skipped or of the wrong shape
WidgetDefinitions ==
    { Crd(Str(GROUP), Str("Widget"), List(vs)) : vs \in WithOne(CompanionEntries, VersionEntries, MaxVersions) }

\* Definitions with one part changed, absent or of the wrong shape
OtherDefinitions ==
    { Crd(Str(OTHER_GROUP), Str("Widget"), List(<<WidgetV1>>)),
      Crd(Str(GROUP), Str("widget"), List(<<WidgetV1>>)),
      Crd(Str(GROUP), Str("Gadget"), List(<<VersionEntry(Str("v1"), OpaqueSchema)>>)),
      Crd(Str(OTHER_GROUP), Str("Gadget"),
          List(<<VersionEntry(Str("v1"), OpaqueSchema), VersionEntry(Str("v1beta1"), ArraySchema)>>)),
      Crd(Str(""), Str("Widget"), List(<<WidgetV1>>)),
      Crd(Str(GROUP), Str(""), List(<<WidgetV1, VersionEntry(Str("v1beta1"), ArraySchema)>>)),
      Crd(Null, Str("Widget"), List(<<WidgetV1>>)),
      Crd(Int(5), Str("Widget"), List(<<WidgetV1>>)),
      Crd(Str(GROUP), Int(5), List(<<WidgetV1>>)),
      Definition(Map(<< <<Str("names"), Names(Str("Widget"))>>, <<Str("versions"), List(<<WidgetV1>>)>> >>)),
      Definition(Map(<< <<Str("group"), Str(GROUP)>>, <<Str("versions"), List(<<WidgetV1>>)>> >>)),
      Definition(Map(<< <<Str("group"), Str(GROUP)>>, <<Str("names"), Names(Str("Widget"))>> >>)),
      Definition(CrdSpec(Str(GROUP), Map(<< <<Str("plural"), Str("widgets")>> >>), List(<<WidgetV1>>))),
      Definition(CrdSpec(Str(GROUP), Null, List(<<WidgetV1>>))),
      Definition(CrdSpec(Str(GROUP), List(<<Str("Widget")>>), List(<<WidgetV1>>))),
      Definition(Null),
      Definition(Str("spec")),
      Definition(List(<<CrdSpec(Str(GROUP), Names(Str("Widget")), List(<<WidgetV1>>))>>)),
      Map(<< <<Str("kind"), Str(CRD_KIND)>> >>),
      Crd(Str(GROUP), Str("Widget"), Null),
      Crd(Str(GROUP), Str("Widget"), Str("v1")),
      Crd(Str(GROUP), Str("Widget"), WidgetV1),
      Crd(Str(GROUP), Str("Widget"), List(<<Str("v1"), WidgetV1>>)),
      Crd(Str(GROUP), Str("Widget"), List(<<VersionEntry(Str(""), WidgetSchema), WidgetV1>>)),
      Crd(Str(GROUP), Str("Widget"), List(<<Map(<< <<Str("name"), Str("v2")>> >>), WidgetV1>>)),
      Crd(Str(GROUP), Str("Widget"), List(<<Map(<< <<Str("name"), Str("v2")>>, <<Str("schema"), EmptyMap>> >>), WidgetV1>>)),
      Crd(Str(GROUP), Str("Widget"), List(<<Map(<< <<Str("name"), Str("v2")>>, <<Str("schema"), List(<<WidgetSchema>>)>> >>), WidgetV1>>)),
      Crd(Str(GROUP), Str("Widget"), List(<<VersionEntry(Str("v2"), Str("object")), WidgetV1>>)),
      Crd(Str(GROUP), Str("Widget"), List(<<VersionEntry(Str("v2"), List(<<Str("type")>>)), WidgetV1>>)),
      Crd(Str(GROUP), Str("Widget"), List(<<VersionEntry(Str("v2"), Map(<< <<Int(1), Str("one")>> >>)), WidgetV1>>)),
      Crd(Str(GROUP), Str("Widget"), List(<<WidgetV1, VersionEntry(Str("v2"), IntKeySchema)>>)),
      Crd(Str(GROUP), Str("Widget"), List(<<VersionEntry(Str("v2"), IntKeyDefaultSchema)>>)) }

\* Documents that are no CustomResourceDefinition
OtherDocuments ==
    { Null, EmptyMap, List(<<>>),
      List(<<Str("a"), Str("b")>>),
      Str("text"),
      Int(7),
      Map(<< <<Str("apiVersion"), Str("v1")>>, <<Str("kind"), Str("ConfigMap")>> >>),
      Map(<< <<Str("apiVersion"), Str("v1")>> >>) }

Documents == WidgetDefinitions \cup OtherDefinitions \cup OtherDocuments

\* The documents that fill the rest of a stream: a definition and a document that
\* is none
Companions ==
    { Crd(Str(GROUP), Str("Widget"), List(<<WidgetV1>>)),
      Map(<< <<Str("apiVersion"), Str("v1")>>, <<Str("kind"), Str("ConfigMap")>> >>) }

\* The streams: up to MaxDocs documents, any one of which may be any document,
\* after which the text may not parse.
Streams ==
    WithOne(Companions, Documents, MaxDocs)
    \cup { Append(q, YamlError) : q \in WithOne(Companions, Documents, MaxDocs - 1) }

\* The whole of extract_schemas on a stream that parses and raises nothing.
RECURSIVE extract_schemas(_)
extract_schemas(stream) ==
    IF stream = <<>> THEN <<>>
    ELSE ExtractDoc(Head(stream)).out \o extract_schemas(Tail(stream))

\* The output directory before the run: absent, or as an earlier run over a bundle
\* with one Widget definition left it.
EarlierBundle == << Crd(Str(GROUP), Str("Widget"), List(<<VersionEntry(Str("v1"), ArraySchema)>>)) >>
PriorDisks == { EmptyDisk, WriteAll(EmptyDisk, SCHEMAS_DIR, extract_schemas(EarlierBundle)) }

(***************************************************************************)
(* sync (sync_crds.py:161-191), one action per step of the run.            *)
(***************************************************************************)
RewriterIdle ==
    /\ rw_pc = "idle" /\ openapi_schema = Null /\ result = Null /\ result2 = Null
    /\ heap = <<>> /\ arg = Null /\ ret = Null

Init ==
    /\ pc = "start"
    /\ crd_yaml = <<>>
    /\ di = 0
    /\ schemas = <<>>
    /\ wi = 0
    /\ disk \in PriorDisks
    /\ disk0 = disk
    /\ echoed = <<>>
    /\ outcome = "running"
    /\ RewriterIdle

\* Mutant of Abort: the exception is noted and the run stays where it is.
Abort_Continues(exception) == pc' = pc /\ outcome' = exception

\* An exception that nothing catches ends the run.
Abort(exception) == pc' = "aborted" /\ outcome' = exception

\* lines 173-174: the version is resolved and announced
ResolveVersion ==
    /\ pc = "start"
    /\ echoed' = Append(echoed, [line |-> "syncing"])
    /\ pc' = "download"
    /\ UNCHANGED <<crd_yaml, di, schemas, wi, disk, outcome, rewrite_vars, disk0>>

\* line 173: get_istio_version cannot read the versions file
ResolveVersionFails ==
    /\ pc = "start"
    /\ Abort("OSError")
    /\ UNCHANGED <<crd_yaml, di, schemas, wi, disk, echoed, rewrite_vars, disk0>>

\* line 176: download_crds returns the bundle
Download ==
    /\ pc = "download"
    /\ echoed' = Append(echoed, [line |-> "downloading"])
    /\ crd_yaml' \in Streams
    /\ pc' = "extract"
    /\ UNCHANGED <<di, schemas, wi, disk, outcome, rewrite_vars, disk0>>

\* line 176: the fetch fails
DownloadFails ==
    /\ pc = "download"
    /\ echoed' = Append(echoed, [line |-> "downloading"])
    /\ Abort("URLError")
    /\ UNCHANGED <<crd_yaml, di, schemas, wi, disk, rewrite_vars, disk0>>

\* lines 97-145: one document is taken from the stream and handled
ExtractDocument ==
    /\ pc = "extract"
    /\ di < Len(crd_yaml)
    /\ crd_yaml[di + 1] # YamlError
    /\ LET r == ExtractDoc(crd_yaml[di + 1])
       IN  /\ r.raised = "none"
           /\ schemas' = schemas \o r.out
    /\ di' = di + 1
    /\ UNCHANGED <<pc, crd_yaml, wi, disk, echoed, outcome, rewrite_vars, disk0>>

\* lines 98-145: handling the document raises; the list built so far is lost
ExtractRaises ==
    /\ pc = "extract"
    /\ di < Len(crd_yaml)
    /\ crd_yaml[di + 1] # YamlError
    /\ LET r == ExtractDoc(crd_yaml[di + 1])
       IN  /\ r.raised # "none"
           /\ Abort(r.raised)
    /\ schemas' = <<>>
    /\ UNCHANGED <<crd_yaml, di, wi, disk, echoed, rewrite_vars, disk0>>

\* Mutant of ParseRaises: the error is swallowed and the documents read so far go
\* to the writer.
ParseRaises_Swallowed ==
    /\ pc = "extract"
    /\ di < Len(crd_yaml)
    /\ crd_yaml[di + 1] = YamlError
    /\ pc' = "write"
    /\ UNCHANGED <<crd_yaml, di, schemas, wi, disk, echoed, outcome, rewrite_vars, disk0>>

\* line 97: the parser raises at the next document; the list built so far is lost
ParseRaises ==
    /\ pc = "extract"
    /\ di < Len(crd_yaml)
    /\ crd_yaml[di + 1] = YamlError
    /\ Abort("YAMLError")
    /\ schemas' = <<>>
    /\ UNCHANGED <<crd_yaml, di, wi, disk, echoed, rewrite_vars, disk0>>

\* Mutant of ExtractReturns: the list goes to the writer as soon as it holds an
\* entry, the rest of the stream unread.
ExtractReturns_Early ==
    /\ pc = "extract"
    /\ di <= Len(crd_yaml)
    /\ schemas # <<>>
    /\ pc' = "write"
    /\ UNCHANGED <<crd_yaml, di, schemas, wi, disk, echoed, outcome, rewrite_vars, disk0>>

\* lines 147, 177-183: extract_schemas returns a list that is not empty
ExtractReturns ==
    /\ pc = "extract"
    /\ di = Len(crd_yaml)
    /\ schemas # <<>>
    /\ pc' = "write"
    /\ UNCHANGED <<crd_yaml, di, schemas, wi, disk, echoed, outcome, rewrite_vars, disk0>>

\* Mutant of ExitNoSchemas: the error is echoed and the run goes on.
ExitNoSchemas_GoesOn ==
    /\ pc = "extract"
    /\ di = Len(crd_yaml)
    /\ schemas = <<>>
    /\ echoed' = Append(echoed, [line |-> "error"])
    /\ pc' = "write"
    /\ UNCHANGED <<crd_yaml, di, schemas, wi, disk, outcome, rewrite_vars, disk0>>

\* lines 179-181: extract_schemas returns an empty list
ExitNoSchemas ==
    /\ pc = "extract"
    /\ di = Len(crd_yaml)
    /\ schemas = <<>>
    /\ echoed' = Append(echoed, [line |-> "error"])
    /\ pc' = "exited"
    /\ outcome' = "exit1"
    /\ UNCHANGED <<crd_yaml, di, schemas, wi, disk, rewrite_vars, disk0>>

\* lines 152-158: one entry is written
WriteNext ==
    /\ pc = "write"
    /\ wi < Len(schemas)
    /\ LET r == WriteEntry(disk, SCHEMAS_DIR, schemas[wi + 1])
       IN  /\ r.raised = "none"
           /\ disk' = r.out
    /\ wi' = wi + 1
    /\ UNCHANGED <<pc, crd_yaml, di, schemas, echoed, outcome, rewrite_vars, disk0>>

\* lines 153-158: the entry itself makes a call raise
WriteRaises ==
    /\ pc = "write"
    /\ wi < Len(schemas)
    /\ LET r == WriteEntry(disk, SCHEMAS_DIR, schemas[wi + 1])
       IN  /\ r.raised # "none"
           /\ disk' = r.out
           /\ Abort(r.raised)
    /\ UNCHANGED <<crd_yaml, di, schemas, wi, echoed, rewrite_vars, disk0>>

\* Mutant of MkdirFails: the failure undoes what the run has written.
MkdirFails_RollsBack ==
    /\ pc = "write"
    /\ wi < Len(schemas)
    /\ IsStr(schemas[wi + 1].group)
    /\ Abort("OSError")
    /\ disk' = disk0
    /\ UNCHANGED <<crd_yaml, di, schemas, wi, echoed, rewrite_vars, disk0>>

\* line 154: the filesystem refuses the mkdir
MkdirFails ==
    /\ pc = "write"
    /\ wi < Len(schemas)
    /\ IsStr(schemas[wi + 1].group)
    /\ Abort("OSError")
    /\ UNCHANGED <<crd_yaml, di, schemas, wi, disk, echoed, rewrite_vars, disk0>>

\* line 158: the filesystem refuses the open (the file is as it was) or the write
\* (the file is left truncated)
WriteTextFails ==
    /\ pc = "write"
    /\ wi < Len(schemas)
    /\ LET r == WriteEntry(disk, SCHEMAS_DIR, schemas[wi + 1])
           entry == schemas[wi + 1]
           made == Mkdir(disk, GroupDir(SCHEMAS_DIR, entry))
       IN  /\ r.raised = "none"
           /\ \E opened \in BOOLEAN :
                 disk' = IF opened
                         THEN WriteText(made, Filepath(SCHEMAS_DIR, entry), Str(""))
                         ELSE made
    /\ Abort("OSError")
    /\ UNCHANGED <<crd_yaml, di, schemas, wi, echoed, rewrite_vars, disk0>>

\* lines 185-191: every entry is written; the summary is echoed
Report ==
    /\ pc = "write"
    /\ wi = Len(schemas)
    /\ echoed' = echoed \o Summary(schemas, SCHEMAS_DIR)
    /\ pc' = "done"
    /\ outcome' = "ok"
    /\ UNCHANGED <<crd_yaml, di, schemas, wi, disk, rewrite_vars, disk0>>

Next ==
    \/ ResolveVersion
    \/ ResolveVersionFails
    \/ Download
    \/ DownloadFails
    \/ ExtractDocument
    \/ ExtractRaises
    \/ ParseRaises
    \/ ExtractReturns
    \/ ExitNoSchemas
    \/ WriteNext
    \/ WriteRaises
    \/ MkdirFails
    \/ WriteTextFails
    \/ Report

Spec == Init /\ [][Next]_vars

\* The run is one thread that takes its next step whenever it has one: weak
\* fairness of Next, stated through the steps taken (a step is enabled exactly when
\* the run has not ended).
FairSpec ==
    Spec /\ ([]<>(pc \in {"done", "exited", "aborted"}) \/ []<><<Next>>_vars)

(***************************************************************************)
(* Properties of the rewriter.                                             *)
(***************************************************************************)
\* A key that the target dialect does not know: an "x-" key other than the preserved one.
IsDroppedKey(key) == IsExtensionKey(key) /\ key # Str(PRESERVE)

\* No mapping anywhere in v (under any key, in any list) has a dropped key.
RECURSIVE NoDroppedKeyAnywhere(_)
NoDroppedKeyAnywhere(v) ==
    CASE IsDict(v) -> \A i \in 1..Len(v.val) :
                          /\ ~IsDroppedKey(v.val[i][1])
                          /\ NoDroppedKeyAnywhere(v.val[i][2])
      [] IsList(v) -> \A i \in 1..Len(v.val) : NoDroppedKeyAnywhere(v.val[i])
      [] OTHER -> TRUE

\* No schema node of v has a dropped key. The schema nodes are v itself and, from a
\* schema node that is a mapping: the values of a mapping under "properties", a
\* mapping under "additionalProperties" or "items", and the elements of a list under
\* "oneOf", "anyOf" or "allOf". Property names and the values of all other keys are
\* not schema nodes.
RECURSIVE NoDroppedKeyAtSchemaNodes(_)
NoDroppedKeyAtSchemaNodes(v) ==
    IsDict(v) =>
        \A i \in 1..Len(v.val) :
            LET key == v.val[i][1]
                value == v.val[i][2]
            IN  /\ ~IsDroppedKey(key)
                /\ (key = Str("properties") /\ IsDict(value)) =>
                       \A j \in 1..Len(value.val) : NoDroppedKeyAtSchemaNodes(value.val[j][2])
                /\ (key \in {Str("additionalProperties"), Str("items")} /\ IsDict(value)) =>
                       NoDroppedKeyAtSchemaNodes(value)
                /\ (key \in {Str("oneOf"), Str("anyOf"), Str("allOf")} /\ IsList(value)) =>
                       \A j \in 1..Len(value.val) : NoDroppedKeyAtSchemaNodes(value.val[j])

\* C1 as stated: the result of openapi_to_jsonschema holds no key starting with "x-"
\* other than x-kubernetes-preserve-unknown-fields, at any depth.
C1_NoExtensionKeyAtAnyDepth ==
    rw_pc \in {"returned", "returned2"} => NoDroppedKeyAnywhere(result)

\* C1 as amended: the result of openapi_to_jsonschema holds no key starting with "x-"
\* other than x-kubernetes-preserve-unknown-fields at any of its schema nodes, at
\* every depth; property names and copied-through values are not filtered.
C1_NoExtensionKeyAtSchemaNodes ==
    rw_pc \in {"returned", "returned2"} => NoDroppedKeyAtSchemaNodes(result)

\* C1's case: the input had a dropped key at a schema node below its root, under
\* "properties", and the call returned.
C1_Witness ==
    /\ rw_pc = "returned"
    /\ IsDict(openapi_schema)
    /\ \A i \in 1..Len(openapi_schema.val) : ~IsDroppedKey(openapi_schema.val[i][1])
    /\ ~NoDroppedKeyAtSchemaNodes(openapi_schema)
    /\ HasKey(result, Str("properties"))

\* C2: openapi_to_jsonschema is idempotent: rewriting the result of a call returns
\* that result again.
C2_Idempotent == rw_pc = "returned2" => result2 = result

\* C2's case: the first call changed the tree (it dropped a key inside a
\* composition list), and the second call has returned.
C2_Witness ==
    /\ rw_pc = "returned2"
    /\ result # openapi_schema
    /\ HasKey(result, Str("oneOf"))
    /\ IsList(Lookup(result, Str("oneOf")))

COMPOSITION == {Str("oneOf"), Str("anyOf"), Str("allOf")}

\* C11: for each of oneOf, anyOf, allOf whose value is a list of N elements, the
\* rewritten node keeps the key with a list of N elements, the i-th of which is the
\* i-th input element rewritten (and the element itself when it is no mapping).
C11_CompositionElementwise ==
    (rw_pc = "returned" /\ IsDict(openapi_schema)) =>
        \A i \in 1..Len(openapi_schema.val) :
            LET key == openapi_schema.val[i][1]
                value == openapi_schema.val[i][2]
            IN  (key \in COMPOSITION /\ IsList(value)) =>
                    /\ HasKey(result, key)
                    /\ IsList(Lookup(result, key))
                    /\ Len(Lookup(result, key).val) = Len(value.val)
                    /\ \A j \in 1..Len(value.val) :
                          /\ Lookup(result, key).val[j] = openapi_to_jsonschema(value.val[j])
                          /\ ~IsDict(value.val[j]) => Lookup(result, key).val[j] = value.val[j]

\* C11's case: a list of two under allOf, the first a mapping that the rewriting
\* changes and the second no mapping, has been rewritten.
C11_Witness ==
    /\ rw_pc = "returned"
    /\ IsDict(openapi_schema)
    /\ HasKey(openapi_schema, Str("allOf"))
    /\ LET value == Lookup(openapi_schema, Str("allOf"))
       IN  /\ IsList(value) /\ Len(value.val) = 2
           /\ IsDict(value.val[1])
           /\ Lookup(result, Str("allOf")).val[1] # value.val[1]
           /\ ~IsDict(value.val[2])

\* At every mapping the rewriter visits on its way through `input`, the preserved
\* key is in the matching node of `output`, with the very value it has in the input.
RECURSIVE PreservedKept(_, _)
PreservedKept(input, output) ==
    IsDict(input) =>
        /\ HasKey(input, Str(PRESERVE)) =>
              /\ HasKey(output, Str(PRESERVE))
              /\ Lookup(output, Str(PRESERVE)) = Lookup(input, Str(PRESERVE))
        /\ \A i \in 1..Len(input.val) :
              LET key == input.val[i][1]
                  value == input.val[i][2]
              IN  /\ (key = Str("properties") /\ IsDict(value)) =>
                        \A j \in 1..Len(value.val) :
                            PreservedKept(value.val[j][2],
                                          Lookup(Lookup(output, key), value.val[j][1]))
                  /\ (key \in {Str("additionalProperties"), Str("items")} /\ IsDict(value)) =>
                        PreservedKept(value, Lookup(output, key))
                  /\ (key \in COMPOSITION /\ IsList(value)) =>
                        \A j \in 1..Len(value.val) :
                            PreservedKept(value.val[j], Lookup(output, key).val[j])

\* C12: at every mapping the rewriter visits, x-kubernetes-preserve-unknown-fields
\* is kept with the value it had, which is not rewritten whatever its shape; so
\* {x-foo: 1, x-kubernetes-preserve-unknown-fields: true, type: object} becomes
\* {x-kubernetes-preserve-unknown-fields: true, type: object}.
C12_PreserveKeyVerbatim ==
    rw_pc = "returned" =>
        /\ PreservedKept(openapi_schema, result)
        /\ openapi_schema = ExtensionExample =>
              result = Map(<< <<Str(PRESERVE), Bool(TRUE)>>, <<Str("type"), Str("object")>> >>)

\* C12's case: a mapping below the root, under items, held the preserved key with a
\* value that rewriting would have changed.
C12_Witness ==
    /\ rw_pc = "returned"
    /\ IsDict(openapi_schema)
    /\ HasKey(openapi_schema, Str("items"))
    /\ LET inner == Lookup(openapi_schema, Str("items"))
       IN  /\ IsDict(inner)
           /\ HasKey(inner, Str(PRESERVE))
           /\ openapi_to_jsonschema(Lookup(inner, Str(PRESERVE))) # Lookup(inner, Str(PRESERVE))
           /\ Lookup(Lookup(result, Str("items")), Str(PRESERVE)) = Lookup(inner, Str(PRESERVE))

\* The mappings that differ from m in the order of their keys only
Reorderings(m) ==
    { Map([i \in 1..Len(m.val) |-> m.val[p[i]]]) : p \in Permutations(1..Len(m.val)) }

\* v with the keys of every mapping in it, at any depth, in reverse order
RECURSIVE Mirrored(_)
Mirrored(v) ==
    CASE IsDict(v) -> Map([i \in 1..Len(v.val) |->
                             <<v.val[Len(v.val) + 1 - i][1], Mirrored(v.val[Len(v.val) + 1 - i][2])>>])
      [] IsList(v) -> List([i \in 1..Len(v.val) |-> Mirrored(v.val[i])])
      [] OTHER -> v

\* a and b are equal but for the order of the keys of their mappings
RECURSIVE EqualAsMappings(_, _)
EqualAsMappings(a, b) ==
    CASE IsDict(a) -> /\ IsDict(b)
                      /\ Len(a.val) = Len(b.val)
                      /\ \A i \in 1..Len(a.val) :
                            /\ HasKey(b, a.val[i][1])
                            /\ EqualAsMappings(a.val[i][2], Lookup(b, a.val[i][1]))
      [] IsList(a) -> /\ IsList(b)
                      /\ Len(a.val) = Len(b.val)
                      /\ \A i \in 1..Len(a.val) : EqualAsMappings(a.val[i], b.val[i])
      [] OTHER -> a = b

\* C20: rewriting is a function of the tree alone, and the order of sibling keys
\* does not matter: a call on an equal tree returns an equal result, and a tree that
\* differs in the order of the keys of its root, or of all its mappings, is rewritten
\* (it raises nothing either) to a result with the same keys and the same values.
C20_Deterministic ==
    rw_pc = "returned" =>
        /\ result = openapi_to_jsonschema(openapi_schema)
        /\ IsDict(openapi_schema) =>
              \A m \in Reorderings(openapi_schema) :
                  /\ ~RewriteRaises(m)
                  /\ Len(openapi_to_jsonschema(m).val) = Len(result.val)
                  /\ \A i \in 1..Len(result.val) :
                        /\ HasKey(openapi_to_jsonschema(m), result.val[i][1])
                        /\ Lookup(openapi_to_jsonschema(m), result.val[i][1]) = result.val[i][2]
        /\ ~RewriteRaises(Mirrored(openapi_schema))
        /\ EqualAsMappings(openapi_to_jsonschema(Mirrored(openapi_schema)), result)

\* C20's case: a mapping of three or more keys, one of them dropped, was rewritten,
\* and in another order of its keys the result comes out in another order.
C20_Witness ==
    /\ rw_pc = "returned"
    /\ IsDict(openapi_schema)
    /\ Len(openapi_schema.val) >= 3
    /\ \E i \in 1..Len(openapi_schema.val) : IsDroppedKey(openapi_schema.val[i][1])
    /\ \E m \in Reorderings(openapi_schema) : openapi_to_jsonschema(m) # result

\* d[key] when d is a mapping that holds key, l[j] when l is a list of j or more
\* elements; None otherwise.
At(d, key) == IF IsDict(d) /\ HasKey(d, key) THEN Lookup(d, key) ELSE Null
Elem(l, j) == IF IsList(l) /\ j \in 1..Len(l.val) THEN l.val[j] ELSE Null

SCHEMA_VALUED == {Str("properties"), Str("additionalProperties"), Str("items")}

\* The mappings the rewriter visits on its way through `input`, each paired with
\* what stands at the same place in `output`: input itself, the values of a mapping
\* under "properties", a mapping under "additionalProperties" or "items", and the
\* elements of a list under "oneOf", "anyOf" or "allOf" of a visited mapping.
RECURSIVE VisitedNodes(_, _)
VisitedNodes(input, output) ==
    IF ~IsDict(input) THEN {}
    ELSE { <<input, output>> } \cup
         UNION { LET key == input.val[i][1]
                     value == input.val[i][2]
                 IN  CASE key = Str("properties") /\ IsDict(value) ->
                            UNION { VisitedNodes(value.val[j][2],
                                                 At(At(output, key), value.val[j][1])) :
                                    j \in 1..Len(value.val) }
                       [] key \in {Str("additionalProperties"), Str("items")} /\ IsDict(value) ->
                            VisitedNodes(value, At(output, key))
                       [] key \in COMPOSITION /\ IsList(value) ->
                            UNION { VisitedNodes(value.val[j], Elem(At(output, key), j)) :
                                    j \in 1..Len(value.val) }
                       [] OTHER -> {} :
                 i \in 1..Len(input.val) }

\* C21: at every mapping the rewriter visits, additionalProperties with a mapping
\* value is replaced by its rewritten form, and additionalProperties, items or
\* properties with a value that is no mapping (a boolean, say), like oneOf, anyOf
\* or allOf with a value that is no list, is kept with its value unchanged.
C21_ShapeGuards ==
    rw_pc = "returned" =>
        \A n \in VisitedNodes(openapi_schema, result) :
            /\ IsDict(n[2])
            /\ \A i \in 1..Len(n[1].val) :
                  LET key == n[1].val[i][1]
                      value == n[1].val[i][2]
                  IN  /\ (key = Str("additionalProperties") /\ IsDict(value)) =>
                            /\ HasKey(n[2], key)
                            /\ Lookup(n[2], key) = openapi_to_jsonschema(value)
                      /\ (key \in SCHEMA_VALUED /\ ~IsDict(value)) =>
                            (HasKey(n[2], key) /\ Lookup(n[2], key) = value)
                      /\ (key \in COMPOSITION /\ ~IsList(value)) =>
                            (HasKey(n[2], key) /\ Lookup(n[2], key) = value)

\* C21's case: additionalProperties held a mapping, that mapping held oneOf with a
\* value that is no list but a mapping with a key the rewriter drops from schema
\* nodes; the call returned, with that value as it was.
C21_Witness ==
    /\ rw_pc = "returned"
    /\ IsDict(openapi_schema)
    /\ IsDict(At(openapi_schema, Str("additionalProperties")))
    /\ LET inner == At(At(openapi_schema, Str("additionalProperties")), Str("oneOf"))
       IN  /\ IsDict(inner)
           /\ \E i \in 1..Len(inner.val) : IsDroppedKey(inner.val[i][1])
           /\ At(At(result, Str("additionalProperties")), Str("oneOf")) = inner

\* A key the rewriter has no rule for: a str that does not start with "x-" and is
\* none of properties, additionalProperties, items, oneOf, anyOf, allOf.
IsOtherKey(key) ==
    /\ IsStr(key)
    /\ ~StartsWith(key.val, EXT_PREFIX)
    /\ key \notin SCHEMA_VALUED \cup COMPOSITION

\* C22: at every mapping the rewriter visits, every key that does not start with
\* "x-" and is none of properties, additionalProperties, items, oneOf, anyOf, allOf
\* (type, required, not, description, ...) is in the result with the very value it
\* has in the input: nothing inside that value is rewritten.
C22_OtherKeysCopied ==
    rw_pc = "returned" =>
        \A n \in VisitedNodes(openapi_schema, result) :
            \A i \in 1..Len(n[1].val) :
                IsOtherKey(n[1].val[i][1]) =>
                    /\ IsDict(n[2])
                    /\ HasKey(n[2], n[1].val[i][1])
                    /\ Lookup(n[2], n[1].val[i][1]) = n[1].val[i][2]

\* C22's case: a mapping below the root, under items, held "not" with a mapping
\* that rewriting would have changed; the call returned, and that mapping is under
\* "not" as it was.
C22_Witness ==
    /\ rw_pc = "returned"
    /\ LET inner == At(At(openapi_schema, Str("items")), Str("not"))
       IN  /\ IsDict(inner)
           /\ openapi_to_jsonschema(inner) # inner
           /\ At(At(result, Str("items")), Str("not")) = inner

\* C23: at every mapping the rewriter visits, "properties" with a mapping value is
\* in the result with a mapping of the same keys in the same order, the value of
\* each key being the input's value rewritten; no property name is filtered, one
\* that starts with "x-" included.
C23_PropertyNamesKept ==
    rw_pc = "returned" =>
        \A n \in VisitedNodes(openapi_schema, result) :
            LET value == At(n[1], Str("properties"))
                rewritten == At(n[2], Str("properties"))
            IN  IsDict(value) =>
                    /\ IsDict(rewritten)
                    /\ Len(rewritten.val) = Len(value.val)
                    /\ \A j \in 1..Len(value.val) :
                          /\ rewritten.val[j][1] = value.val[j][1]
                          /\ rewritten.val[j][2] = openapi_to_jsonschema(value.val[j][2])
                          /\ ~IsDict(value.val[j][2]) => rewritten.val[j][2] = value.val[j][2]

\* C23's case: "properties" held two names, the second starting with "x-" and
\* with a schema that rewriting changes; the call returned, and the second name of
\* the result is that name, with the changed schema.
C23_Witness ==
    /\ rw_pc = "returned"
    /\ LET value == At(openapi_schema, Str("properties"))
           rewritten == At(result, Str("properties"))
       IN  /\ IsDict(value) /\ Len(value.val) = 2
           /\ IsDroppedKey(value.val[2][1])
           /\ IsDict(rewritten) /\ Len(rewritten.val) = 2
           /\ rewritten.val[2][1] = value.val[2][1]
           /\ rewritten.val[2][2] # value.val[2][2]

\* The objects of the argument: the heap as the call found it
ArgumentObjects == Store(<<>>, openapi_schema).heap

\* Whether the object at a cell holds, directly, a reference to an object of the argument
SharesWithArgument(cell) ==
    /\ cell.tag = "ref"
    /\ \E i \in 1..Len(heap[cell.val].val) :
          LET c == IF heap[cell.val].tag = "map" THEN heap[cell.val].val[i][2]
                   ELSE heap[cell.val].val[i]
          IN  c.tag = "ref" /\ c.val \in 1..Len(ArgumentObjects)

\* C25: openapi_to_jsonschema never modifies its argument: after the call (also one
\* that raises, and after a further call on the result) every object of the input
\* tree is as it was before the call, so the tree is equal to what it was; and for
\* a mapping input the object returned is a new one, not the input object.
C25_ArgumentUnmodified ==
    rw_pc \in {"returned", "raised", "returned2"} =>
        /\ Len(heap) >= Len(ArgumentObjects)
        /\ \A a \in 1..Len(ArgumentObjects) : heap[a] = ArgumentObjects[a]
        /\ Load(heap, arg) = openapi_schema
        /\ rw_pc = "returned" =>
              /\ Load(heap, ret) = result
              /\ IsDict(openapi_schema) =>
                    /\ ret.tag = "ref"
                    /\ ret # arg
                    /\ ret.val \notin 1..Len(ArgumentObjects)

\* C25's case: a mapping was rewritten to a different tree, and the mapping
\* returned holds by reference an object of the argument (a value that was copied
\* through), which a write into the result's side could have reached.
C25_Witness ==
    /\ rw_pc = "returned"
    /\ IsDict(openapi_schema)
    /\ result # openapi_schema
    /\ SharesWithArgument(ret)

(***************************************************************************)
(* What a stream declares, read off the documents without running the      *)
(* extractor: the versions of its definitions that carry a group, a kind,  *)
(* a name and a schema body, in stream order. The properties of the        *)
(* pipeline compare what the run built with this.                          *)
(***************************************************************************)
IsDefinition(doc) == IsDict(doc) /\ Get(doc, "kind", Null) = Str(CRD_KIND)

SpecOf(doc) == Get(doc, "spec", EmptyMap)
GroupOf(doc) == Get(SpecOf(doc), "group", Str(""))
KindOf(doc) == Get(Get(SpecOf(doc), "names", EmptyMap), "kind", Str(""))
VersionsOf(doc) == Get(SpecOf(doc), "versions", List(<<>>))
NameOf(ver_entry) == Get(ver_entry, "name", Str(""))
BodyOf(ver_entry) == Get(Get(ver_entry, "schema", EmptyMap), "openAPIV3Schema", EmptyMap)

\* A definition with a group and a kind
Identified(doc) ==
    /\ IsDefinition(doc)
    /\ IsDict(SpecOf(doc))
    /\ IsDict(Get(SpecOf(doc), "names", EmptyMap))
    /\ Truthy(GroupOf(doc))
    /\ Truthy(KindOf(doc))

\* A version entry with a name and a schema body
Complete(ver_entry) ==
    /\ IsDict(ver_entry)
    /\ IsDict(Get(ver_entry, "schema", EmptyMap))
    /\ Truthy(NameOf(ver_entry))
    /\ Truthy(BodyOf(ver_entry))

DeclaredBy(doc) ==
    IF Identified(doc) /\ IsList(VersionsOf(doc))
    THEN LET complete == SelectSeq(VersionsOf(doc).val, Complete)
         IN  [i \in 1..Len(complete) |->
                [group |-> GroupOf(doc), kind |-> KindOf(doc),
                 version |-> NameOf(complete[i]), body |-> BodyOf(complete[i])]]
    ELSE <<>>

RECURSIVE Declared(_)
Declared(stream) ==
    IF stream = <<>> THEN <<>> ELSE DeclaredBy(Head(stream)) \o Declared(Tail(stream))

\* The documents the extractor has consumed so far
Consumed == SubSeq(crd_yaml, 1, di)

\* extract_schemas is running or has returned (its list is schemas)
Extracting == pc = "extract"
Extracted == pc \in {"write", "done", "exited"} \/ (pc = "aborted" /\ schemas # <<>>)

\* The path the layout convention gives a declared version
LayoutPath(group, kind, version) ==
    SCHEMAS_DIR \o "/" \o group \o "/" \o lower(kind) \o "_" \o version \o ".json"

Triple(entry) == <<entry.group, entry.kind, entry.version>>

\* The value of the annotation's only element
Annotation(document) == Lookup(document, Str(GVK)).val[1]

(***************************************************************************)
(* Properties of the pipeline.                                             *)
(***************************************************************************)
\* C3 as stated: in every artifact, each of 'type', 'properties' and 'required' is
\* present only if the rewritten root of its version has it.
C3_RootKeysOnlyIfPresent ==
    (Extracting \/ Extracted) =>
        /\ Len(schemas) = Len(Declared(Consumed))
        /\ \A i \in 1..Len(schemas) : \A j \in 1..Len(ROOT_KEYS) :
              HasKey(schemas[i].schema, Str(ROOT_KEYS[j]))
                  => PyIn(ROOT_KEYS[j], openapi_to_jsonschema(Declared(Consumed)[i].body))

\* C3 as amended: in every artifact, 'properties' and 'required' are present exactly
\* when the rewritten root of its version has them, with the root's value; 'type' is
\* always present, with the root's value when the root has one and "object" otherwise.
C3_RootAssembly ==
    (Extracting \/ Extracted) =>
        /\ Len(schemas) = Len(Declared(Consumed))
        /\ \A i \in 1..Len(schemas) :
              LET root == openapi_to_jsonschema(Declared(Consumed)[i].body)
                  artifact == schemas[i].schema
              IN  /\ \A name \in {"properties", "required"} :
                        /\ HasKey(artifact, Str(name)) <=> PyIn(name, root)
                        /\ PyIn(name, root) => Lookup(artifact, Str(name)) = Lookup(root, Str(name))
                  /\ HasKey(artifact, Str("type"))
                  /\ Lookup(artifact, Str("type")) =
                        IF PyIn("type", root) THEN Lookup(root, Str("type")) ELSE Str("object")

\* C3's case: an artifact was built from a root that has 'properties' and no 'type',
\* and another from a root that has a 'type' other than object.
C3_Witness ==
    /\ Extracted
    /\ \E i \in 1..Len(schemas) :
          LET root == openapi_to_jsonschema(Declared(crd_yaml)[i].body)
          IN  IsDict(root) /\ ~HasKey(root, Str("type")) /\ HasKey(root, Str("properties"))
    /\ \E i \in 1..Len(schemas) : Lookup(schemas[i].schema, Str("type")) = Str("array")

\* The stream was read to its end and declares no version
ZeroArtifacts ==
    /\ pc \notin {"start", "download", "aborted"}
    /\ di = Len(crd_yaml)
    /\ Declared(crd_yaml) = <<>>

HasSummary == \E i \in 1..Len(echoed) : echoed[i].line \in {"wrote", "group"}

\* C4: when the stream yields no artifact the run ends with exit code 1: it never
\* reaches the writer, the disk stays as the run found it, and no summary is echoed.
C4_ZeroArtifactsFails ==
    ZeroArtifacts =>
        /\ pc \in {"extract", "exited"}
        /\ pc = "extract" => (schemas = <<>> /\ outcome = "running")
        /\ pc = "exited" => (outcome = "exit1" /\ echoed[Len(echoed)].line = "error")
        /\ wi = 0
        /\ disk = disk0
        /\ ~HasSummary

\* C4's case: a stream of two documents, one of them a definition, that declares no
\* version has been read and the run has ended.
C4_Witness ==
    /\ ZeroArtifacts
    /\ pc = "exited"
    /\ Len(crd_yaml) = 2
    /\ \E i \in 1..2 : Identified(crd_yaml[i])

\* A document the extractor is to skip: empty, no mapping, or of another kind
NoDefinition(doc) == doc # YamlError /\ (~Truthy(doc) \/ ~IsDict(doc) \/ ~IsDefinition(doc))

\* The step that consumes the next document goes on to the one after it
GoesOn == pc' = "extract" /\ di' = di + 1

\* C5 as stated: a document that is empty, no mapping or of another kind is skipped
\* without an error, and the extraction goes on with the next document.
C5_NonDefinitionsSkipped ==
    [][(Extracting /\ di < Len(crd_yaml) /\ NoDefinition(crd_yaml[di + 1]))
          => (GoesOn /\ schemas' = schemas)]_vars

\* A definition one of whose parts is present with the wrong shape: its spec, its
\* names, its version list, a version entry, or the schema of a version entry.
Present(d, name) == HasKey(d, Str(name))
Malformed(doc) ==
    /\ IsDefinition(doc)
    /\ \/ Present(doc, "spec") /\ ~IsDict(SpecOf(doc))
       \/ /\ IsDict(SpecOf(doc))
          /\ \/ Present(SpecOf(doc), "names") /\ ~IsDict(Get(SpecOf(doc), "names", EmptyMap))
             \/ Present(SpecOf(doc), "versions") /\ ~IsList(VersionsOf(doc))
             \/ /\ IsList(VersionsOf(doc))
                /\ \E i \in 1..Len(VersionsOf(doc).val) :
                      LET ver_entry == VersionsOf(doc).val[i]
                      IN  \/ ~IsDict(ver_entry)
                          \/ Present(ver_entry, "schema")
                                /\ ~IsDict(Get(ver_entry, "schema", EmptyMap))

\* C6 as stated: a definition with a part of the wrong shape never aborts the
\* extraction, which goes on with the next document.
C6_MalformedSkipped ==
    [][(Extracting /\ di < Len(crd_yaml) /\ Malformed(crd_yaml[di + 1])) => GoesOn]_vars

\* A definition whose group or kind is absent or empty (its spec and its names being
\* mappings, or absent)
Unidentified(doc) ==
    /\ IsDefinition(doc)
    /\ IsDict(SpecOf(doc))
    /\ IsDict(Get(SpecOf(doc), "names", EmptyMap))
    /\ (~Truthy(GroupOf(doc)) \/ ~Truthy(KindOf(doc)))

\* C13: a definition whose spec.group or spec.names.kind is absent or empty adds no
\* artifact, whatever versions it lists, and raises nothing: the extraction goes on
\* with the next document.
C13_UnidentifiedSkipped ==
    [][(Extracting /\ di < Len(crd_yaml) /\ Unidentified(crd_yaml[di + 1]))
          => (GoesOn /\ schemas' = schemas /\ outcome' = "running")]_vars

\* C13's case: after a definition that gave an artifact, a definition that lacks its
\* group or kind and lists a complete version was consumed, and the list went to
\* the writer with the one artifact.
C13_Witness ==
    /\ pc = "write"
    /\ Len(crd_yaml) = 2
    /\ Len(DeclaredBy(crd_yaml[1])) = 1
    /\ Unidentified(crd_yaml[2])
    /\ IsList(VersionsOf(crd_yaml[2]))
    /\ \E i \in 1..Len(VersionsOf(crd_yaml[2]).val) : Complete(VersionsOf(crd_yaml[2]).val[i])
    /\ Len(schemas) = 1

\* A version entry the loop handles without raising: a mapping whose schema is a
\* mapping or absent, with a str name and a body that is a mapping of str keys
WellFormed(ver_entry) ==
    /\ IsDict(ver_entry)
    /\ IsDict(Get(ver_entry, "schema", EmptyMap))
    /\ IsStr(NameOf(ver_entry))
    /\ IsDict(BodyOf(ver_entry))
    /\ ~RewriteRaises(BodyOf(ver_entry))

\* A definition with a group, a kind and a list of such entries, at least one of
\* which lacks its name or its body
HasIncompleteVersion(doc) ==
    /\ Identified(doc)
    /\ IsStr(GroupOf(doc)) /\ IsStr(KindOf(doc))
    /\ IsList(VersionsOf(doc))
    /\ \A i \in 1..Len(VersionsOf(doc).val) : WellFormed(VersionsOf(doc).val[i])
    /\ \E i \in 1..Len(VersionsOf(doc).val) : ~Complete(VersionsOf(doc).val[i])

\* C14: a version entry whose name is absent or empty, or whose body is absent or
\* empty, gives no artifact, and every other entry of the document that has both
\* gives its artifact: the document adds exactly one artifact per complete entry, in
\* the order of the list and under the entry's name, and the extraction goes on.
C14_IncompleteVersionSkipped ==
    [][(Extracting /\ di < Len(crd_yaml) /\ HasIncompleteVersion(crd_yaml[di + 1])) =>
          LET doc == crd_yaml[di + 1]
              complete == SelectSeq(VersionsOf(doc).val, Complete)
          IN  /\ GoesOn
              /\ Len(schemas') = Len(schemas) + Len(complete)
              /\ SubSeq(schemas', 1, Len(schemas)) = schemas
              /\ \A i \in 1..Len(complete) :
                    LET entry == schemas'[Len(schemas) + i]
                    IN  /\ entry.version = NameOf(complete[i])
                        /\ Annotation(entry.schema) =
                              Map(<< <<Str("group"), GroupOf(doc)>>,
                                     <<Str("kind"), KindOf(doc)>>,
                                     <<Str("version"), NameOf(complete[i])>> >>)]_vars

\* C14's case: a definition whose first entry lacks its name or its body and whose
\* second entry has both was consumed and gave the one artifact of the second.
C14_Witness ==
    /\ pc = "extract"
    /\ di = 1
    /\ HasIncompleteVersion(crd_yaml[1])
    /\ Len(VersionsOf(crd_yaml[1]).val) = 2
    /\ ~Complete(VersionsOf(crd_yaml[1]).val[1])
    /\ Complete(VersionsOf(crd_yaml[1]).val[2])
    /\ Len(schemas) = 1
    /\ schemas[1].version = NameOf(VersionsOf(crd_yaml[1]).val[2])

\* The next document of the stream is the one the parser raises at
ParseErrorNext == di < Len(crd_yaml) /\ crd_yaml[di + 1] = YamlError

\* C15: when the parser raises, at the first document or at a later one, the error
\* leaves the run: the run is aborted with the parser's error, and no file was
\* written, no directory made and no summary echoed, whatever the documents before
\* the error declared.
C15_ParseErrorWritesNothing ==
    /\ ParseErrorNext =>
          /\ pc \in {"extract", "aborted"}
          /\ pc = "extract" => outcome = "running"
          /\ pc = "aborted" => outcome = "YAMLError"
          /\ disk = disk0
          /\ wi = 0
          /\ ~HasSummary
    /\ outcome = "YAMLError" => (ParseErrorNext /\ pc = "aborted")

\* C15's case: the parser raised after a definition that declares a version; the
\* output directory, absent before the run, is still absent.
C15_Witness ==
    /\ outcome = "YAMLError"
    /\ di >= 1
    /\ Declared(Consumed) # <<>>
    /\ disk0 = EmptyDisk
    /\ disk = EmptyDisk

\* C7: the list extract_schemas builds holds the declared versions in stream order:
\* document by document, and in the order of each document's version list.
C7_OrderPreserved ==
    (Extracting \/ Extracted) =>
        /\ Len(schemas) = Len(Declared(Consumed))
        /\ \A i \in 1..Len(schemas) :
              LET d == Declared(Consumed)[i]
              IN  Triple(schemas[i]) = <<d.group, Str(lower(d.kind.val)), d.version>>

\* C7's case: two definitions gave three artifacts, the first two of them the two
\* versions of the first definition and the third the version of the second.
C7_Witness ==
    /\ pc = "write"
    /\ Len(crd_yaml) = 2
    /\ Len(schemas) = 3
    /\ Len(DeclaredBy(crd_yaml[1])) = 2
    /\ schemas[1].version # schemas[2].version
    /\ Len(DeclaredBy(crd_yaml[2])) = 1

\* The entries written so far that share entry i's path
SamePath(i) == { j \in 1..wi : Filepath(SCHEMAS_DIR, schemas[j]) = Filepath(SCHEMAS_DIR, schemas[i]) }
LastOf(S) == CHOOSE j \in S : \A k \in S : k <= j

\* C8: nothing is deduplicated and the last write wins: every declared version has
\* its artifact in the list, a triple that occurs again is written again without an
\* error, and the file of every entry written so far holds the content of the last
\* entry written to its path, whatever the file held before.
C8_LastWriteWins ==
    pc \in {"write", "done"} =>
        /\ Len(schemas) = Len(Declared(crd_yaml))
        /\ \A i \in 1..wi :
              /\ Filepath(SCHEMAS_DIR, schemas[i]) \in FilePaths(disk)
              /\ ContentAt(disk, Filepath(SCHEMAS_DIR, schemas[i]))
                    = JsonDocument(schemas[LastOf(SamePath(i))].schema)
        /\ (wi < Len(schemas) /\ \E i \in 1..wi : Triple(schemas[i]) = Triple(schemas[wi + 1]))
              => WriteEntry(disk, SCHEMAS_DIR, schemas[wi + 1]).raised = "none"

\* C8's case: the run is done; one triple occurred twice with different artifacts,
\* and its file was already there, with yet another content, before the run.
C8_Witness ==
    /\ pc = "done"
    /\ \E i, j \in 1..Len(schemas) :
          /\ i < j
          /\ Triple(schemas[i]) = Triple(schemas[j])
          /\ schemas[i].schema # schemas[j].schema
          /\ Filepath(SCHEMAS_DIR, schemas[i]) \in FilePaths(disk0)
          /\ ContentAt(disk0, Filepath(SCHEMAS_DIR, schemas[i])) # JsonDocument(schemas[i].schema)
          /\ ContentAt(disk0, Filepath(SCHEMAS_DIR, schemas[i])) # JsonDocument(schemas[j].schema)

\* The run was aborted inside write_schemas, at entry wi + 1 (an abort of the
\* extraction leaves no list)
WriteAborted == pc = "aborted" /\ schemas # <<>>

\* The paths of the entries handled before the failure, and the path of the entry
\* the failure happened at (none when its group is no str)
WrittenPaths == { Filepath(SCHEMAS_DIR, schemas[j]) : j \in 1..wi }
FailedPaths ==
    IF IsStr(schemas[wi + 1].group) THEN {Filepath(SCHEMAS_DIR, schemas[wi + 1])} ELSE {}

\* What holds of every run aborted inside write_schemas, whatever the paths: the
\* error ends the run, no summary is echoed, the entries after the failed one have
\* written nothing, and nothing is removed.
AbortedInWriter ==
    /\ outcome \notin {"running", "ok", "exit1"}
    /\ wi < Len(schemas)
    /\ ~HasSummary
    /\ disk0.dirs \subseteq disk.dirs
    /\ FilePaths(disk0) \cup WrittenPaths \subseteq FilePaths(disk)
    /\ FilePaths(disk) \subseteq FilePaths(disk0) \cup WrittenPaths \cup FailedPaths
    /\ \A f \in disk0.files : f.path \notin WrittenPaths \cup FailedPaths => f \in disk.files

\* C16 as stated: when a filesystem error occurs at the i-th artifact the run is
\* aborted, no later artifact is written, no summary is echoed, and the files of
\* artifacts 1..i-1 are on disk as they were written.
C16_WrittenFilesKept ==
    WriteAborted =>
        /\ AbortedInWriter
        /\ \A j \in 1..wi :
              ContentAt(disk, Filepath(SCHEMAS_DIR, schemas[j]))
                  = JsonDocument(schemas[LastOf(SamePath(j))].schema)

\* C16 as amended: the same, but the files of artifacts 1..i-1 are as they were
\* written except the file at the i-th artifact's own path, when an earlier artifact
\* shares it: the failed write may have truncated that one.
C16_PartialOutputKept ==
    WriteAborted =>
        /\ AbortedInWriter
        /\ \A j \in 1..wi :
              Filepath(SCHEMAS_DIR, schemas[j]) \notin FailedPaths =>
                  ContentAt(disk, Filepath(SCHEMAS_DIR, schemas[j]))
                      = JsonDocument(schemas[LastOf(SamePath(j))].schema)

\* C16's case: the write of the third artifact failed after two were written; the
\* third has the path of the second, whose file is left empty, and the file of the
\* first is as it was written.
C16_Witness ==
    /\ WriteAborted
    /\ outcome = "OSError"
    /\ wi = 2
    /\ Filepath(SCHEMAS_DIR, schemas[3]) = Filepath(SCHEMAS_DIR, schemas[2])
    /\ Filepath(SCHEMAS_DIR, schemas[1]) # Filepath(SCHEMAS_DIR, schemas[2])
    /\ ContentAt(disk, Filepath(SCHEMAS_DIR, schemas[2])) = Str("")
    /\ ContentAt(disk, Filepath(SCHEMAS_DIR, schemas[1])) = JsonDocument(schemas[1].schema)

\* The lines of the summary: the one with the count, and the ones of the groups
IsCountLine(e) == e.line = "wrote"
IsGroupLine(e) == e.line = "group"
CountLines == SelectSeq(echoed, IsCountLine)
GroupLines == SelectSeq(echoed, IsGroupLine)

\* The identifiers a group line lists, and the path of the file an identifier names
Listed(l) == { l.kinds[k] : k \in 1..Len(l.kinds) }
ListedPath(group, ident) == SCHEMAS_DIR \o "/" \o group \o "/" \o ident \o ".json"

\* C17: the summary of a finished run reports as count the number of artifacts
\* written and, once per group, the identifiers <kind>_<version> of the files
\* written into the group's directory: the identifiers under a group are those of
\* the versions declared for it, each names a file on disk, and every file the run
\* added or changed is listed under its group.
C17_SummaryMatchesDisk ==
    pc = "done" =>
        LET declared == Declared(crd_yaml)
            groups == { declared[i].group.val : i \in 1..Len(declared) }
        IN  /\ Len(CountLines) = 1
            /\ CountLines[1].count = wi
            /\ CountLines[1].count = Len(declared)
            /\ { GroupLines[i].group : i \in 1..Len(GroupLines) } = groups
            /\ Len(GroupLines) = Cardinality(groups)
            /\ \A i \in 1..Len(GroupLines) :
                  LET l == GroupLines[i]
                  IN  /\ Listed(l) =
                            { lower(declared[j].kind.val) \o "_" \o declared[j].version.val :
                                j \in { k \in 1..Len(declared) : declared[k].group.val = l.group } }
                      /\ \A ident \in Listed(l) : ListedPath(l.group, ident) \in FilePaths(disk)
            /\ \A f \in disk.files :
                  \/ f \in disk0.files
                  \/ \E i \in 1..Len(GroupLines) : \E ident \in Listed(GroupLines[i]) :
                        f.path = ListedPath(GroupLines[i].group, ident)

\* C17's case: a finished run wrote three artifacts of two groups into an output
\* directory that did not exist, two of them into one group.
C17_Witness ==
    /\ pc = "done"
    /\ disk0 = EmptyDisk
    /\ Len(schemas) = 3
    /\ Len(GroupLines) = 2
    /\ \E i \in 1..2 : Cardinality(Listed(GroupLines[i])) = 2
    /\ Cardinality(disk.files) = 3

\* The run has ended
Ended == pc \in {"done", "exited", "aborted"}

\* C18: every run ends, in exactly one of two ways: it completes, having read the
\* whole stream and written every entry, and reports the count; or it fails, with
\* exit code 1 on an empty list or with the exception of the first fatal condition,
\* and reports nothing. No step is taken after the end.
C18_OneOfTwoOutcomes ==
    /\ [](/\ outcome = "ok" <=> pc = "done"
          /\ outcome = "exit1" <=> pc = "exited"
          /\ outcome \notin {"running", "ok", "exit1"} <=> pc = "aborted"
          /\ pc = "done" =>
                (di = Len(crd_yaml) /\ wi = Len(schemas) /\ Len(CountLines) = 1)
          /\ pc \in {"exited", "aborted"} => ~HasSummary)
    /\ [][~Ended]_vars
    /\ <>Ended

\* C18's case: the fetch failed, the first of the fatal conditions; the run is
\* aborted with the fetch's error before any document was read.
C18_Witness ==
    /\ pc = "aborted"
    /\ outcome = "URLError"
    /\ crd_yaml = <<>>
    /\ disk = disk0
    /\ echoed[Len(echoed)].line = "downloading"

\* C19: every artifact extract_schemas produces has the draft-07 identifier as
\* $schema, "<kind> (<group>/<version>)" of its definition's declared kind, group
\* and version as description, and an x-kubernetes-group-version-kind annotation
\* whose one element is {group, kind, version} of that triple.
C19_ArtifactIdentity ==
    (Extracting \/ Extracted) =>
        /\ Len(schemas) = Len(Declared(Consumed))
        /\ \A i \in 1..Len(schemas) :
              LET d == Declared(Consumed)[i]
                  artifact == schemas[i].schema
              IN  /\ Lookup(artifact, Str("$schema")) = Str("http://json-schema.org/draft-07/schema#")
                  /\ (IsStr(d.group) /\ IsStr(d.kind) /\ IsStr(d.version)) =>
                        Lookup(artifact, Str("description")) =
                            Str(d.kind.val \o " (" \o d.group.val \o "/" \o d.version.val \o ")")
                  /\ Lookup(artifact, Str("x-kubernetes-group-version-kind")) =
                        List(<< Map(<< <<Str("group"), d.group>>,
                                       <<Str("kind"), d.kind>>,
                                       <<Str("version"), d.version>> >>) >>)

\* C19's case: the second version, v1beta1, of a definition of kind Widget has its
\* artifact, under the lowercased kind and described by the declared one.
C19_Witness ==
    /\ Extracted
    /\ Len(schemas) >= 2
    /\ schemas[2].kind = Str("widget")
    /\ schemas[2].version = Str("v1beta1")
    /\ Lookup(schemas[2].schema, Str("description")) = Str("Widget (networking.example.io/v1beta1)")

\* C9: handling one entry writes exactly one file, at
\* <output-root>/<group>/<kind lowercased>_<version>.json, in the directory
\* <output-root>/<group>, which exists afterwards; no other file is touched and no
\* directory is removed.
C9_OneFilePerEntry ==
    [][(pc = "write" /\ wi' = wi + 1) =>
          LET d == Declared(crd_yaml)[wi + 1]
              path == LayoutPath(d.group.val, d.kind.val, d.version.val)
          IN  /\ (SCHEMAS_DIR \o "/" \o d.group.val) \in disk'.dirs
              /\ disk.dirs \subseteq disk'.dirs
              /\ FilePaths(disk') = FilePaths(disk) \cup {path}
              /\ ContentAt(disk', path) = JsonDocument(schemas[wi + 1].schema)
              /\ \A f \in disk.files : f.path # path => f \in disk'.files]_vars

\* C9's case: an entry of a kind with capital letters was written into a directory
\* that did not exist before, after another entry.
C9_Witness ==
    /\ pc = "write"
    /\ wi = 2
    /\ disk0 = EmptyDisk
    /\ schemas[1].group # schemas[2].group
    /\ KindOf(crd_yaml[2]) = Str("Widget")

\* A stream of one definition with str group and kind and k > 0 complete versions of
\* distinct names, whose bodies are mappings
OneDefinition ==
    /\ Len(crd_yaml) = 1
    /\ Identified(crd_yaml[1])
    /\ IsStr(GroupOf(crd_yaml[1])) /\ IsStr(KindOf(crd_yaml[1]))
    /\ IsList(VersionsOf(crd_yaml[1]))
    /\ LET entries == VersionsOf(crd_yaml[1]).val
       IN  /\ Len(entries) > 0
           /\ \A i \in 1..Len(entries) :
                 Complete(entries[i]) /\ IsStr(NameOf(entries[i])) /\ IsDict(BodyOf(entries[i]))
           /\ \A i, j \in 1..Len(entries) : NameOf(entries[i]) = NameOf(entries[j]) => i = j

\* C10: for a stream of one definition with k versions of distinct names, the
\* finished run has written exactly k files, one per version at
\* <group>/<kind lowercased>_<version>.json, each with the annotation of its own
\* group, kind and version and the rewritten type and properties of its own schema;
\* the files that were there before are as they were.
C10_OneFilePerVersion ==
    (pc = "done" /\ OneDefinition) =>
        LET doc == crd_yaml[1]
            entries == VersionsOf(doc).val
            PathOf(i) == LayoutPath(GroupOf(doc).val, KindOf(doc).val, NameOf(entries[i]).val)
            paths == { PathOf(i) : i \in 1..Len(entries) }
        IN  /\ wi = Len(entries)
            /\ Cardinality(paths) = Len(entries)
            /\ FilePaths(disk) = FilePaths(disk0) \cup paths
            /\ \A f \in disk0.files : f.path \notin paths => f \in disk.files
            /\ \A i \in 1..Len(entries) :
                  LET document == ContentAt(disk, PathOf(i))
                      root == openapi_to_jsonschema(BodyOf(entries[i]))
                  IN  /\ Annotation(document) =
                            Map(<< <<Str("group"), GroupOf(doc)>>,
                                   <<Str("kind"), KindOf(doc)>>,
                                   <<Str("version"), NameOf(entries[i])>> >>)
                      /\ HasKey(root, Str("type")) =>
                            Lookup(document, Str("type")) = Lookup(root, Str("type"))
                      /\ HasKey(root, Str("properties")) =>
                            Lookup(document, Str("properties"))
                                = JsonDocument(Lookup(root, Str("properties")))

\* C10's case: the run over one definition with two versions, v1 and v1beta1, is done.
C10_Witness ==
    /\ pc = "done"
    /\ OneDefinition
    /\ Len(VersionsOf(crd_yaml[1]).val) = 2
    /\ HasKey(BodyOf(VersionsOf(crd_yaml[1]).val[1]), Str("properties"))

\* The number of upstream fetches started so far (download_crds announces each)
Fetches == Cardinality({ i \in 1..Len(echoed) : echoed[i].line = "downloading" })

\* The steps of a run, told by what they change
FetchStep == Len(echoed') > Len(echoed) /\ echoed'[Len(echoed')].line = "downloading"
ExtractionStep == di' # di \/ schemas' # schemas
WriterStep == wi' # wi \/ disk' # disk
SummaryStep == ~HasSummary /\ HasSummary'

\* C24: the steps of a run are strictly ordered: the upstream fetch happens once,
\* before any extraction; the whole stream is extracted before the first file is
\* written; and the summary is emitted only after every artifact has been written.
C24_StepsOrdered ==
    [][/\ FetchStep =>
             /\ Fetches = 0 /\ Fetches' = 1
             /\ di = 0 /\ schemas = <<>> /\ wi = 0 /\ disk = disk0
       /\ ExtractionStep =>
             /\ Fetches = 1 /\ Fetches' = 1
             /\ wi = 0 /\ disk = disk0 /\ ~WriterStep /\ ~HasSummary'
       /\ WriterStep =>
             /\ Fetches' = 1
             /\ di = Len(crd_yaml) /\ di' = di /\ schemas' = schemas
             /\ wi < Len(schemas) /\ ~HasSummary'
       /\ SummaryStep =>
             /\ Fetches' = 1
             /\ di = Len(crd_yaml)
             /\ wi = Len(schemas) /\ wi > 0
             /\ WrittenPaths \subseteq FilePaths(disk)
             /\ ~ExtractionStep /\ ~WriterStep
      ]_vars

\* C24's case: a run over a stream of two documents fetched, extracted two entries,
\* wrote both and emitted the summary.
C24_Witness ==
    /\ pc = "done"
    /\ HasSummary
    /\ Fetches = 1
    /\ Len(crd_yaml) = 2 /\ di = 2
    /\ Len(schemas) >= 2 /\ wi = Len(schemas)

\* The path of the i-th declared version of the bundle, by the layout convention
DeclaredPath(i) ==
    LET d == Declared(crd_yaml)[i]
    IN  LayoutPath(d.group.val, d.kind.val, d.version.val)

\* C26: after a successful run into an empty output directory the files on disk
\* are exactly the distinct paths <group>/<lowercase kind>_<version>.json of the
\* extracted artifacts, so there are at most as many files as artifacts; and two
\* definitions of one group whose kinds differ in letter case only, with the same
\* version, share one file, which holds the artifact of the later one.
C26_FilesAreDistinctPaths ==
    (pc = "done" /\ disk0 = EmptyDisk) =>
        LET decl == Declared(crd_yaml)
        IN  /\ Len(schemas) = Len(decl)
            /\ FilePaths(disk) = { DeclaredPath(i) : i \in 1..Len(decl) }
            /\ Cardinality(FilePaths(disk)) <= Len(schemas)
            /\ \A i, j \in 1..Len(decl) :
                  (/\ i < j
                   /\ decl[i].group = decl[j].group
                   /\ decl[i].version = decl[j].version
                   /\ lower(decl[i].kind.val) = lower(decl[j].kind.val)
                   /\ \A k \in (j + 1)..Len(decl) : DeclaredPath(k) # DeclaredPath(j)) =>
                      /\ DeclaredPath(i) = DeclaredPath(j)
                      /\ ContentAt(disk, DeclaredPath(j)) = JsonDocument(schemas[j].schema)
                      /\ Lookup(Annotation(ContentAt(disk, DeclaredPath(j))), Str("kind"))
                            = decl[j].kind

\* C26's case: a run into an empty directory is done over two definitions of one
\* group and version whose kinds differ in letter case only: two artifacts, one file.
C26_Witness ==
    /\ pc = "done"
    /\ disk0 = EmptyDisk
    /\ Len(schemas) = 2
    /\ Cardinality(FilePaths(disk)) = 1
    /\ Len(crd_yaml) = 2
    /\ KindOf(crd_yaml[1]) # KindOf(crd_yaml[2])
    /\ schemas[1].schema # schemas[2].schema

\* A mapping the rewriter visits in `body` has a key that is no str
NonStringKeyVisited(body) ==
    \E n \in VisitedNodes(body, Null) :
        \E i \in 1..Len(n[1].val) : ~IsStr(n[1].val[i][1])

\* The next document declares a version whose schema has such a key
NonStringKeyNext ==
    /\ pc = "extract"
    /\ di < Len(crd_yaml)
    /\ crd_yaml[di + 1] # YamlError
    /\ \E i \in 1..Len(DeclaredBy(crd_yaml[di + 1])) :
          NonStringKeyVisited(DeclaredBy(crd_yaml[di + 1])[i].body)

\* C27: the rewriter requires str keys in every mapping it visits: on a schema with
\* a key that is no str in a visited mapping the call raises (the key is neither
\* copied nor dropped), extract_schemas does not catch the error, and the run
\* aborts with that error, nothing written and no summary.
C27_NonStringKeyAborts ==
    [][NonStringKeyNext =>
          /\ \A i \in 1..Len(DeclaredBy(crd_yaml[di + 1])) :
                LET body == DeclaredBy(crd_yaml[di + 1])[i].body
                IN  NonStringKeyVisited(body) =>
                        /\ RewriteRaises(body)
                        /\ HeapRewrite(Store(<<>>, body).heap, Store(<<>>, body).ref).raised
          /\ pc' = "aborted"
          /\ outcome' = "AttributeError"
          /\ schemas' = <<>>
          /\ wi' = 0
          /\ disk' = disk0
          /\ ~HasSummary'
      ]_vars

\* C27's case: after a document that gave an entry, a definition whose second
\* version has an integer key in a property schema made the run abort.
C27_Witness ==
    /\ pc = "aborted"
    /\ outcome = "AttributeError"
    /\ di = 1
    /\ Len(crd_yaml) = 2
    /\ Len(DeclaredBy(crd_yaml[1])) = 1
    /\ Len(DeclaredBy(crd_yaml[2])) = 2
    /\ ~NonStringKeyVisited(DeclaredBy(crd_yaml[2])[1].body)
    /\ NonStringKeyVisited(DeclaredBy(crd_yaml[2])[2].body)
    /\ disk = disk0

\* No character of s is an uppercase letter
NoUppercase(s) ==
    \A i \in 1..Len(s) : \A j \in 1..Len(UPPERCASE) : SubSeq(s, i, i) # SubSeq(UPPERCASE, j, j)

\* C28: every entry extract_schemas has built has a group, a kind and a version
\* that are not empty, a kind with no uppercase letter, and an annotation
\* x-kubernetes-group-version-kind that is a list of exactly one mapping, whose
\* group and version are the entry's and whose kind, lowercased, is the entry's kind.
C28_EntryInvariants ==
    \A i \in 1..Len(schemas) :
        LET entry == schemas[i]
            annotation == At(entry.schema, Str(GVK))
        IN  /\ Truthy(entry.group) /\ Truthy(entry.kind) /\ Truthy(entry.version)
            /\ IsStr(entry.kind)
            /\ NoUppercase(entry.kind.val)
            /\ IsList(annotation)
            /\ Len(annotation.val) = 1
            /\ IsDict(annotation.val[1])
            /\ Len(annotation.val[1].val) = 3
            /\ At(annotation.val[1], Str("group")) = entry.group
            /\ At(annotation.val[1], Str("version")) = entry.version
            /\ IsStr(At(annotation.val[1], Str("kind")))
            /\ lower(At(annotation.val[1], Str("kind")).val) = entry.kind.val

\* C28's case: extract_schemas returned two entries of a definition whose kind has
\* an uppercase letter, so that the annotation's kind is not the entry's kind.
C28_Witness ==
    /\ pc = "write"
    /\ Len(schemas) >= 2
    /\ schemas[1].version # schemas[2].version
    /\ At(At(schemas[1].schema, Str(GVK)).val[1], Str("kind")) # schemas[1].kind
    /\ ~NoUppercase(At(At(schemas[1].schema, Str(GVK)).val[1], Str("kind")).val)

ARTIFACT_KEYS ==
    { Str("$schema"), Str("description"), Str("type"), Str(GVK),
      Str("properties"), Str("required") }

KeysOf(d) == { d.val[i][1] : i \in 1..Len(d.val) }

\* C29: the keys of every artifact, in the list and in the files the run has
\* written, are among $schema, description, type, the annotation, properties and
\* required: no other key of the rewritten root (additionalProperties, items, the
\* preserved key, the root's own description) reaches the artifact.
C29_ArtifactKeys ==
    /\ \A i \in 1..Len(schemas) :
          /\ IsDict(schemas[i].schema)
          /\ KeysOf(schemas[i].schema) \subseteq ARTIFACT_KEYS
    /\ (Extracted /\ Len(schemas) = Len(Declared(crd_yaml))) =>
          \A i \in 1..Len(schemas) :
              LET root == openapi_to_jsonschema(Declared(crd_yaml)[i].body)
              IN  /\ IsDict(root) =>
                        \A key \in KeysOf(root) \ {Str("properties"), Str("required"), Str("type")} :
                            ~HasKey(schemas[i].schema, key)
                            \/ At(schemas[i].schema, key) # At(root, key)
                  /\ (i <= wi /\ pc \in {"write", "done"}) =>
                        /\ IsDict(ContentAt(disk, Filepath(SCHEMAS_DIR, schemas[i])))
                        /\ KeysOf(ContentAt(disk, Filepath(SCHEMAS_DIR, schemas[i])))
                              \subseteq ARTIFACT_KEYS

\* C29's case: the artifact of a version whose rewritten root has a description of
\* its own and additionalProperties has been written.
C29_Witness ==
    /\ pc = "done"
    /\ \E i \in 1..Len(schemas) :
          LET root == openapi_to_jsonschema(Declared(crd_yaml)[i].body)
          IN  /\ IsDict(root)
              /\ HasKey(root, Str("description"))
              /\ HasKey(root, Str("additionalProperties"))
              /\ Filepath(SCHEMAS_DIR, schemas[i]) \in FilePaths(disk)

RECURSIVE SumSeq(_)
SumSeq(q) == IF q = <<>> THEN 0 ELSE Head(q) + SumSeq(Tail(q))
RECURSIVE MaxSeq(_)
MaxSeq(q) ==
    IF q = <<>> THEN 0
    ELSE IF Head(q) >= MaxSeq(Tail(q)) THEN Head(q) ELSE MaxSeq(Tail(q))

\* The number of values in a tree (mappings, lists and scalars), and how deep its
\* mappings and lists are nested
RECURSIVE Size(_)
Size(v) ==
    CASE IsDict(v) -> 1 + SumSeq([i \in 1..Len(v.val) |-> Size(v.val[i][2])])
      [] IsList(v) -> 1 + SumSeq([i \in 1..Len(v.val) |-> Size(v.val[i])])
      [] OTHER -> 1
RECURSIVE Depth(_)
Depth(v) ==
    CASE IsDict(v) -> 1 + MaxSeq([i \in 1..Len(v.val) |-> Depth(v.val[i][2])])
      [] IsList(v) -> 1 + MaxSeq([i \in 1..Len(v.val) |-> Depth(v.val[i])])
      [] OTHER -> 0

\* The number of calls of openapi_to_jsonschema that one call on s makes, itself
\* included (lines 80, 83, 85 and 87 are the calls).
RECURSIVE Calls(_)
Calls(s) ==
    IF ~IsDict(s) THEN 1
    ELSE 1 + SumSeq([i \in 1..Len(s.val) |->
                LET key == s.val[i][1]
                    value == s.val[i][2]
                IN  CASE key = Str("properties") /\ IsDict(value) ->
                            SumSeq([j \in 1..Len(value.val) |-> Calls(value.val[j][2])])
                      [] key \in {Str("additionalProperties"), Str("items")} /\ IsDict(value) ->
                            Calls(value)
                      [] key \in COMPOSITION /\ IsList(value) ->
                            SumSeq([j \in 1..Len(value.val) |-> Calls(value.val[j])])
                      [] OTHER -> 0])

\* C30: openapi_to_jsonschema terminates on every finite tree (it calls itself on
\* values of the tree only, each once at most, so a call makes no more calls than
\* the tree has values, and the harness never stays in the call), and it adds no
\* structure: at every mapping it visits the keys of the result are keys of the
\* input, and the result is nested no deeper than the input.
C30_NoAddedStructure ==
    /\ rw_pc = "call" => Calls(openapi_schema) <= Size(openapi_schema)
    /\ rw_pc = "returned" =>
          /\ Calls(openapi_schema) <= Size(openapi_schema)
          /\ Size(result) <= Size(openapi_schema)
          /\ Depth(result) <= Depth(openapi_schema)
          /\ \A n \in VisitedNodes(openapi_schema, result) :
                /\ IsDict(n[2])
                /\ KeysOf(n[2]) \subseteq KeysOf(n[1])
    /\ rw_pc = "returned2" =>
          /\ Depth(result2) <= Depth(result)
          /\ \A n \in VisitedNodes(result, result2) :
                IsDict(n[2]) /\ KeysOf(n[2]) \subseteq KeysOf(n[1])

\* C30's case: a call that made three calls or more returned a mapping with fewer
\* keys than its input has, and less deeply nested.
C30_Witness ==
    /\ rw_pc = "returned"
    /\ IsDict(openapi_schema)
    /\ Calls(openapi_schema) >= 3
    /\ KeysOf(result) # KeysOf(openapi_schema)
    /\ Depth(result) < Depth(openapi_schema)
====
